---- MODULE Spec2Model ----
(***************************************************************************)
(* Streaming pipeline of the JYTek DAQ service: DAQDataService (session    *)
(* table, subscriber table, global enable flag, one generation task per    *)
(* session) and DAQStreamService (the Subscribe call with its transport    *)
(* loop, and Control).                                                     *)
(*                                                                         *)
(* Every Subscribe call draws a fresh client id (Guid.NewGuid), so a call  *)
(* and the session it creates share one identity c \in Clients and a       *)
(* client id is never used by two calls.                                   *)
(***************************************************************************)
EXTENDS Integers, Sequences, FiniteSets, TLC

\* Subscribe calls (and so sessions) the service sees.
NumClients == 2
\* Chunks one generation task produces at most.
MaxChunks == 2
\* while (dataQueue.TryDequeue(out var chunk) && chunksSent < 10)
BatchMax == 10

Clients == 1..NumClients

\* DataRequest values a client may send: one valid request and one request
\* for each way of failing the validation.
Requests ==
    { [channels |-> 2, sampleRate |-> 1000, bufferSize |-> 4],
      [channels |-> 0, sampleRate |-> 1000, bufferSize |-> 4],
      [channels |-> 2, sampleRate |-> 0,    bufferSize |-> 4],
      [channels |-> 2, sampleRate |-> 1000, bufferSize |-> 0] }

NoRequest == [channels |-> 0, sampleRate |-> 0, bufferSize |-> 0]

\* ControlCmd.Types.Command, and a value outside the enum.
Commands == {"START", "STOP", "PAUSE", "RESUME", "RESET", "UNKNOWN"}

\* Command strings a SignalR client may pass to DAQHub.SendControlCommand.
HubCommands == {"start", "STOP", "pause", "resume", "reset", "bogus"}

VARIABLES
    globalDataGeneration, \* DAQDataService._globalDataGeneration
    sessions,             \* keys of DAQDataService._sessions
    subscribers,          \* keys of DAQDataService._subscribers
    request,              \* request[c]: the DataRequest of call c
    isActive,             \* ClientSession.IsActive
    cancelled,            \* ClientSession.CancellationTokenSource: Cancel() was called
    disposed,             \* ClientSession.CancellationTokenSource: Dispose() was called
    pacerPc,              \* position of GenerateDataForClient(session)
    pacerSeq,             \* its local sequenceNumber
    callPc,               \* position of the Subscribe call
    ctx,                  \* context.CancellationToken is cancelled (client gone)
    sendSeq,              \* Subscribe's local sequenceNumber
    chunksSent,           \* Subscribe's local chunksSent
    status,               \* gRPC status the Subscribe call ends with
    dataQueue,            \* Subscribe's local dataQueue
    stream,               \* chunks written to responseStream, in write order
    control,              \* a STOP or RESET in progress: the sessions its foreach
                          \* enumerates (snap) and has still to visit (todo)
    ack,                  \* the Ack the controlling client received last (NoAck: none
                          \* yet, or it is waiting for one)
    hub,                  \* what the last DAQHub.SendControlCommand sent, in order
    synth,                \* one call of GenerateHighPerformanceData: its arguments
                          \* and what it did (used by SynthSpec only)
    ring,                 \* a CircularBuffer of the browser client (RingSpec only)
    ringLog,              \* what was done to it: the pushes since it was created
                          \* or last cleared, and the last operation
    lod,                  \* one downsampling pass of convertDataToPlot (LodSpec only)
    metrics,              \* PerformanceMonitorService: _globalMetrics, _clientMetrics
    recorder,             \* the RecordDataSent / RecordLatency call of each session
    resetter,             \* position of a call of PerformanceMetrics.Reset
    reader,               \* a call of GetMetricsSnapshot: its position and what it read
    codec,                \* one chunk on its way from the synthesizer to the arrays
                          \* of the browser client (CodecSpec only)
    realData,             \* RealDataService of the browser client (RealDataSpec only)
    streamer,             \* a HighPerformanceStreamer (StreamerSpec only)
    signalr,              \* the SignalR connection of a client to DAQHub: the
                          \* invocation in flight and how the earlier ones ended
    pacing,               \* the interval computation of one generation task
    mock,                 \* mock mode of the browser client: App, its
                          \* MockDataGenerator and HighPerformanceStreamer
    chart                 \* WaveformChart: its data prop, ring buffer and render loop

vars == << globalDataGeneration, sessions, subscribers, request, isActive,
           cancelled, disposed, pacerPc, pacerSeq, callPc, ctx, sendSeq,
           chunksSent, status, dataQueue, stream, control, ack, hub, synth,
           ring, ringLog, lod, metrics, recorder, resetter, reader, codec,
           realData, streamer, signalr, pacing, mock, chart >>

dataVars == << globalDataGeneration, sessions, subscribers, isActive,
               cancelled, disposed >>
pacerVars == << pacerPc, pacerSeq >>
callVars == << request, callPc, ctx, sendSeq, chunksSent, status, stream >>
ctlVars == << control, ack, hub >>
\* The streaming pipeline of the service.
pipeVars == << dataQueue, dataVars, pacerVars, callVars, ctlVars >>
ringVars == << ring, ringLog >>
monVars == << metrics, recorder, resetter, reader >>
\* What the pipeline never touches.
auxVars == << synth, ringVars, lod, monVars, codec, realData, streamer, signalr,
             pacing, mock, chart >>
\* All but the synthesizer call, all but the ring buffer, ...
restOfSynth == << pipeVars, ringVars, lod, monVars, codec, realData, streamer,
    signalr, pacing, mock, chart >>
restOfRing == << pipeVars, synth, lod, monVars, codec, realData, streamer,
    signalr, pacing, mock, chart >>
restOfLod == << pipeVars, synth, ringVars, monVars, codec, realData, streamer,
    signalr, pacing, mock, chart >>
restOfMon == << pipeVars, synth, ringVars, lod, codec, realData, streamer,
    signalr, pacing, mock, chart >>
restOfCodec == << pipeVars, synth, ringVars, lod, monVars, realData, streamer,
    signalr, pacing, mock, chart >>
restOfRealData == << pipeVars, synth, ringVars, lod, monVars, codec, streamer,
    signalr, pacing, mock, chart >>
restOfStreamer == << pipeVars, synth, ringVars, lod, monVars, codec, realData,
    signalr, pacing, mock, chart >>
restOfSignalr == << pipeVars, synth, ringVars, lod, monVars, codec, realData, streamer,
    pacing, mock, chart >>
restOfPacing == << pipeVars, synth, ringVars, lod, monVars, codec, realData, streamer,
    signalr, mock, chart >>
restOfMock == << pipeVars, synth, ringVars, lod, monVars, codec, realData, streamer,
    signalr, pacing, chart >>
restOfChart == << pipeVars, synth, ringVars, lod, monVars, codec, realData, streamer,
    signalr, pacing, mock >>

\* The synthesizer has not returned.
Pending == [throws |-> "pending", payload |-> << >>]
NoSynth ==
    [request |-> [channels |-> [top |-> 0, low |-> 0],
                  sampleRate |-> [top |-> 0, low |-> 0],
                  bufferSize |-> [top |-> 0, low |-> 0]],
     sequenceNumber |-> 0, result |-> Pending]

\* No CircularBuffer was constructed.
NoRing == [size |-> 0]
NoRingLog == [op |-> "none"]
\* Nothing was done yet to the buffer just constructed.
NewRingLog == [op |-> "new", pushed |-> << >>, cleared |-> FALSE, stale |-> {},
               clock |-> 0, base |-> 0]

\* convertDataToPlot was not called.
NoLod == [pc |-> "none"]

\* new PerformanceMetrics(): every counter 0.
NewMetrics ==
    [TotalBytesSent |-> 0, TotalPacketsSent |-> 0, LatencyCount |-> 0,
     LatencySum |-> 0, MinLatency |-> 0, MaxLatency |-> 0,
     LatencyDistribution |-> [i \in 0..5 |-> 0]]

\* The service as constructed: _clientMetrics is empty and nobody holds
\* _globalMetrics.LatencyLock. recorded is no field of the service: it keeps
\* the latencies counted into _globalMetrics since it was last reset.
NoMetrics ==
    [global |-> NewMetrics, clients |-> << >>, locked |-> FALSE, recorded |-> {}]
\* No call of the session is running; calls and sent count its finished
\* RecordDataSent calls and their bytes, idCalls and idSent those of them
\* that passed a client id, lats its finished RecordLatency calls; overlap
\* says that one of its calls began while another session's was running.
NoCall == [pc |-> "idle", bytes |-> 0, latency |-> 0, withId |-> FALSE,
           calls |-> 0, sent |-> 0, idCalls |-> 0, idSent |-> 0, lats |-> 0,
           overlap |-> FALSE]
\* The fields of the object GetMetricsSnapshot returns, in the order it
\* reads them, and the metrics as they were before any reset began.
NoSnapshot ==
    [rateBytes |-> 0, ratePackets |-> 0, avgCount |-> 0, avgSum |-> 0,
     Distribution |-> [i \in 0..5 |-> 0], TotalBytes |-> 0, Packets |-> 0,
     Min |-> 0, Max |-> 0, Count |-> 0]
NoReader == [pc |-> "idle", before |-> NewMetrics, snap |-> NoSnapshot]

NoCodec == [pc |-> "none"]
NoRealData == [pc |-> "none"]
NoStreamer == [pc |-> "none"]
NoSignalr == [pc |-> "none"]
NoPacing == [pc |-> "none"]
NoMock == [pc |-> "none"]
NoChart == [pc |-> "none"]

NoAck == [cmd |-> "NONE", success |-> FALSE]
Idle == [pc |-> "idle", cmd |-> "NONE", todo |-> {}, snap |-> {}, via |-> "rpc",
         arg |-> "NONE"]

\* The service with its flag on from construction.
PipeInit_Enabled ==
    /\ globalDataGeneration = TRUE
    /\ sessions = {}
    /\ subscribers = {}
    /\ request = [c \in Clients |-> NoRequest]
    /\ isActive = [c \in Clients |-> FALSE]
    /\ cancelled = [c \in Clients |-> FALSE]
    /\ disposed = [c \in Clients |-> FALSE]
    /\ pacerPc = [c \in Clients |-> "none"]
    /\ pacerSeq = [c \in Clients |-> 0]
    /\ callPc = [c \in Clients |-> "idle"]
    /\ ctx = [c \in Clients |-> FALSE]
    /\ sendSeq = [c \in Clients |-> 0]
    /\ chunksSent = [c \in Clients |-> 0]
    /\ status = [c \in Clients |-> "none"]
    /\ dataQueue = [c \in Clients |-> << >>]
    /\ stream = [c \in Clients |-> << >>]
    /\ control = Idle
    /\ ack = NoAck
    /\ hub = << >>

\* No call, no session, no command yet.
PipeInit ==
    /\ globalDataGeneration = FALSE
    /\ sessions = {}
    /\ subscribers = {}
    /\ request = [c \in Clients |-> NoRequest]
    /\ isActive = [c \in Clients |-> FALSE]
    /\ cancelled = [c \in Clients |-> FALSE]
    /\ disposed = [c \in Clients |-> FALSE]
    /\ pacerPc = [c \in Clients |-> "none"]
    /\ pacerSeq = [c \in Clients |-> 0]
    /\ callPc = [c \in Clients |-> "idle"]
    /\ ctx = [c \in Clients |-> FALSE]
    /\ sendSeq = [c \in Clients |-> 0]
    /\ chunksSent = [c \in Clients |-> 0]
    /\ status = [c \in Clients |-> "none"]
    /\ dataQueue = [c \in Clients |-> << >>]
    /\ stream = [c \in Clients |-> << >>]
    /\ control = Idle
    /\ ack = NoAck
    /\ hub = << >>

\* No synthesizer call, no ring buffer, ... is looked at.
SynthIdle == synth = NoSynth
RingIdle == ring = NoRing /\ ringLog = NoRingLog
LodIdle == lod = NoLod
MonIdle ==
    /\ metrics = [locked |-> FALSE]
    /\ recorder = << >>
    /\ resetter = "none"
    /\ reader = [pc |-> "none"]
CodecIdle == codec = NoCodec
RealDataIdle == realData = NoRealData
StreamerIdle == streamer = NoStreamer
SignalrIdle == signalr = NoSignalr
PacingIdle == pacing = NoPacing
MockIdle == mock = NoMock
ChartIdle == chart = NoChart

Init ==
    /\ PipeInit
    /\ SignalrIdle
    /\ PacingIdle
    /\ MockIdle
    /\ ChartIdle
    /\ SynthIdle
    /\ RingIdle
    /\ LodIdle
    /\ MonIdle
    /\ CodecIdle
    /\ RealDataIdle
    /\ StreamerIdle

----------------------------------------------------------------------------
(* DAQStreamService.Subscribe                                              *)

\* The validation without its third test.
ValidRequest_NoBufferSize(req) ==
    ~(req.channels = 0 \/ req.sampleRate = 0)

\* if (request.Channels == 0 || request.SampleRate == 0 || request.BufferSize == 0) throw
ValidRequest(req) ==
    ~(req.channels = 0 \/ req.sampleRate = 0 \/ req.bufferSize = 0)

\* Lines 177-185, the status the call ends with when exception e reaches the
\* catch clauses: catch (OperationCanceledException) logs and lets the call
\* end normally; catch (Exception ex) throws RpcException(StatusCode.Internal).
CatchStatus(e) == IF e = "OperationCanceled" THEN "OK" ELSE "Internal"

\* Lines 114-132: the validation, which throws
\* RpcException(StatusCode.InvalidArgument) inside the try block, and, for a
\* valid request, DAQDataService.StartDataGeneration (lines 27-45: the
\* session goes into the table and its task is started).
SubscribeBegin(c, req) ==
    /\ callPc[c] = "idle"
    /\ request' = [request EXCEPT ![c] = req]
    /\ IF ValidRequest(req)
       THEN /\ sessions' = sessions \cup {c}
            /\ isActive' = [isActive EXCEPT ![c] = TRUE]
            /\ pacerPc' = [pacerPc EXCEPT ![c] = "loop"]
            /\ callPc' = [callPc EXCEPT ![c] = "register"]
            /\ UNCHANGED status
       ELSE /\ status' = [status EXCEPT ![c] = CatchStatus("InvalidArgument")]
            /\ callPc' = [callPc EXCEPT ![c] = "finally"]
            /\ UNCHANGED << sessions, isActive, pacerPc >>
    /\ UNCHANGED << globalDataGeneration, subscribers, cancelled, disposed,
                    pacerSeq, ctx, sendSeq, chunksSent, stream, dataQueue >>
    /\ UNCHANGED ctlVars
    /\ UNCHANGED auxVars

\* The call with its sequence number kept in the service and carried on from
\* the calls before it.
SubscribeRegister_SharedSeq(c) ==
    /\ callPc[c] = "register"
    /\ subscribers' = subscribers \cup {c}
    /\ callPc' = [callPc EXCEPT ![c] = "loop"]
    /\ sendSeq' = [sendSeq EXCEPT ![c] =
                     CHOOSE n \in {sendSeq[d] : d \in Clients} :
                         \A d \in Clients : sendSeq[d] <= n]
    /\ UNCHANGED << globalDataGeneration, sessions, isActive, cancelled, disposed >>
    /\ UNCHANGED << request, ctx, chunksSent, status, stream, dataQueue >>
    /\ UNCHANGED pacerVars
    /\ UNCHANGED ctlVars
    /\ UNCHANGED auxVars

\* Lines 135-139: DAQDataService.Subscribe(clientId, chunk => dataQueue.Enqueue(chunk)),
\* and var sequenceNumber = 0u (the value sendSeq has from Init on).
SubscribeRegister(c) ==
    /\ callPc[c] = "register"
    /\ subscribers' = subscribers \cup {c}
    /\ callPc' = [callPc EXCEPT ![c] = "loop"]
    /\ UNCHANGED << globalDataGeneration, sessions, isActive, cancelled, disposed >>
    /\ UNCHANGED << request, ctx, sendSeq, chunksSent, status, stream, dataQueue >>
    /\ UNCHANGED pacerVars
    /\ UNCHANGED ctlVars
    /\ UNCHANGED auxVars

\* The chunk written as the generation task numbered it.
StampSeq_Keep(chunk, n) == chunk

\* chunk.Seq = sequenceNumber++ : the transport stamps its own number on the chunk.
StampSeq(chunk, n) == [chunk EXCEPT !.seq = n]

\* Line 142: while (!context.CancellationToken.IsCancellationRequested), and
\* the start of one pass (var chunksSent = 0).
TransportLoop(c) ==
    /\ callPc[c] = "loop"
    /\ callPc' = [callPc EXCEPT ![c] = IF ctx[c] THEN "finally" ELSE "batch"]
    /\ UNCHANGED << request, ctx, sendSeq, chunksSent, status, stream, dataQueue >>
    /\ UNCHANGED dataVars
    /\ UNCHANGED pacerVars
    /\ UNCHANGED ctlVars
    /\ UNCHANGED auxVars

\* The inner loop without its second test: it writes as long as the queue
\* has a chunk.
TransportBatch_NoLimit(c) ==
    /\ callPc[c] = "batch"
    /\ IF dataQueue[c] = << >>
       THEN /\ callPc' = [callPc EXCEPT ![c] =
                            IF chunksSent[c] = 0 THEN "wait" ELSE "loop"]
            /\ chunksSent' = [chunksSent EXCEPT ![c] = 0]
            /\ UNCHANGED << dataQueue, sendSeq, stream, status >>
       ELSE /\ dataQueue' = [dataQueue EXCEPT ![c] = Tail(@)]
            /\ sendSeq' = [sendSeq EXCEPT ![c] = @ + 1]
            /\ IF ctx[c]
               THEN /\ status' = [status EXCEPT ![c] =
                                     CatchStatus("OperationCanceled")]
                    /\ callPc' = [callPc EXCEPT ![c] = "finally"]
                    /\ chunksSent' = [chunksSent EXCEPT ![c] = 0]
                    /\ UNCHANGED stream
               ELSE /\ stream' = [stream EXCEPT ![c] =
                           Append(@, StampSeq(Head(dataQueue[c]), sendSeq[c]))]
                    /\ chunksSent' = [chunksSent EXCEPT ![c] = @ + 1]
                    /\ UNCHANGED << status, callPc >>
    /\ UNCHANGED << request, ctx >>
    /\ UNCHANGED dataVars
    /\ UNCHANGED pacerVars
    /\ UNCHANGED ctlVars
    /\ UNCHANGED auxVars

\* Lines 148-160, one evaluation of the inner while condition and, when it
\* holds, one pass of its body. TryDequeue is evaluated before chunksSent < 10,
\* so the chunk is taken from the queue in both cases. WriteAsync with a
\* cancelled token throws OperationCanceledException. chunksSent is a local
\* of one pass of the outer loop: it is 0 outside a pass.
TransportBatch(c) ==
    /\ callPc[c] = "batch"
    /\ IF dataQueue[c] = << >>
       THEN /\ callPc' = [callPc EXCEPT ![c] =
                            IF chunksSent[c] = 0 THEN "wait" ELSE "loop"]
            /\ chunksSent' = [chunksSent EXCEPT ![c] = 0]
            /\ UNCHANGED << dataQueue, sendSeq, stream, status >>
       ELSE /\ dataQueue' = [dataQueue EXCEPT ![c] = Tail(@)]
            /\ IF chunksSent[c] < BatchMax
               THEN /\ sendSeq' = [sendSeq EXCEPT ![c] = @ + 1]
                    /\ IF ctx[c]
                       THEN /\ status' = [status EXCEPT ![c] =
                                             CatchStatus("OperationCanceled")]
                            /\ callPc' = [callPc EXCEPT ![c] = "finally"]
                            /\ chunksSent' = [chunksSent EXCEPT ![c] = 0]
                            /\ UNCHANGED stream
                       ELSE /\ stream' = [stream EXCEPT ![c] =
                                   Append(@, StampSeq(Head(dataQueue[c]), sendSeq[c]))]
                            /\ chunksSent' = [chunksSent EXCEPT ![c] = @ + 1]
                            /\ UNCHANGED << status, callPc >>
               ELSE /\ callPc' = [callPc EXCEPT ![c] = "loop"]
                    /\ chunksSent' = [chunksSent EXCEPT ![c] = 0]
                    /\ UNCHANGED << sendSeq, stream, status >>
    /\ UNCHANGED << request, ctx >>
    /\ UNCHANGED dataVars
    /\ UNCHANGED pacerVars
    /\ UNCHANGED ctlVars
    /\ UNCHANGED auxVars

\* Line 155: WriteAsync fails for a reason other than cancellation (the
\* transport broke): an exception that is not OperationCanceledException.
TransportWriteFail(c) ==
    /\ callPc[c] = "batch"
    /\ dataQueue[c] # << >>
    /\ chunksSent[c] < BatchMax
    /\ ~ctx[c]
    /\ dataQueue' = [dataQueue EXCEPT ![c] = Tail(@)]
    /\ sendSeq' = [sendSeq EXCEPT ![c] = @ + 1]
    /\ status' = [status EXCEPT ![c] = CatchStatus("IOException")]
    /\ callPc' = [callPc EXCEPT ![c] = "finally"]
    /\ chunksSent' = [chunksSent EXCEPT ![c] = 0]
    /\ UNCHANGED << request, ctx, stream >>
    /\ UNCHANGED dataVars
    /\ UNCHANGED pacerVars
    /\ UNCHANGED ctlVars
    /\ UNCHANGED auxVars

\* Lines 163-166: await Task.Delay(1, context.CancellationToken), which
\* throws OperationCanceledException when the token is cancelled.
TransportWait(c) ==
    /\ callPc[c] = "wait"
    /\ IF ctx[c]
       THEN /\ status' = [status EXCEPT ![c] = CatchStatus("OperationCanceled")]
            /\ callPc' = [callPc EXCEPT ![c] = "finally"]
       ELSE /\ callPc' = [callPc EXCEPT ![c] = "loop"]
            /\ UNCHANGED status
    /\ UNCHANGED << request, ctx, sendSeq, chunksSent, stream, dataQueue >>
    /\ UNCHANGED dataVars
    /\ UNCHANGED pacerVars
    /\ UNCHANGED ctlVars
    /\ UNCHANGED auxVars

\* The finally clause with a teardown that stops every session, as
\* StopGlobalDataGeneration does, instead of the one of the call.
SubscribeFinally_StopsAll(c) ==
    /\ callPc[c] = "finally"
    /\ sessions' = sessions \ {c}
    /\ isActive' = [d \in Clients |-> FALSE]
    /\ cancelled' = [d \in Clients |-> cancelled[d] \/ d \in sessions]
    /\ disposed' = [disposed EXCEPT ![c] = @ \/ c \in sessions]
    /\ status' = [status EXCEPT ![c] = IF @ = "none" THEN "OK" ELSE @]
    /\ callPc' = [callPc EXCEPT ![c] = "done"]
    /\ UNCHANGED << globalDataGeneration, subscribers >>
    /\ UNCHANGED << request, ctx, sendSeq, chunksSent, stream, dataQueue >>
    /\ UNCHANGED pacerVars
    /\ UNCHANGED ctlVars
    /\ UNCHANGED auxVars

\* Lines 186-191 with DAQDataService.StopDataGeneration (lines 50-61):
\* if (_sessions.TryRemove(clientId, out var session))
\*     { session.IsActive = false; Cancel(); Dispose(); }
\* The subscription returned by DAQDataService.Subscribe is never disposed.
\* A call that reaches finally with no exception ends with status OK.
SubscribeFinally(c) ==
    /\ callPc[c] = "finally"
    /\ IF c \in sessions
       THEN /\ sessions' = sessions \ {c}
            /\ isActive' = [isActive EXCEPT ![c] = FALSE]
            /\ cancelled' = [cancelled EXCEPT ![c] = TRUE]
            /\ disposed' = [disposed EXCEPT ![c] = TRUE]
       ELSE UNCHANGED << sessions, isActive, cancelled, disposed >>
    /\ status' = [status EXCEPT ![c] = IF @ = "none" THEN "OK" ELSE @]
    /\ callPc' = [callPc EXCEPT ![c] = "done"]
    /\ UNCHANGED << globalDataGeneration, subscribers >>
    /\ UNCHANGED << request, ctx, sendSeq, chunksSent, stream, dataQueue >>
    /\ UNCHANGED pacerVars
    /\ UNCHANGED ctlVars
    /\ UNCHANGED auxVars

\* The client goes away while its call is open: the call's token is cancelled.
Disconnect(c) ==
    /\ callPc[c] \notin {"idle", "done"}
    /\ ~ctx[c]
    /\ ctx' = [ctx EXCEPT ![c] = TRUE]
    /\ UNCHANGED << request, callPc, sendSeq, chunksSent, status, stream, dataQueue >>
    /\ UNCHANGED dataVars
    /\ UNCHANGED pacerVars
    /\ UNCHANGED ctlVars
    /\ UNCHANGED auxVars

----------------------------------------------------------------------------
(* DAQDataService.GenerateDataForClient, the generation task of a session  *)

\* The chunk of lines 181-192: synthesized for sequence offset n, Seq = n.
NewChunk(n) == [offset |-> n, seq |-> n]

\* Task.Run(() => GenerateDataForClient(session), token) of line 42, lines
\* 137-159 and line 161, while (session.IsActive && !token.IsCancellationRequested).
\* A task whose token is cancelled before it starts never runs.
PacerLoop(c) ==
    /\ pacerPc[c] = "loop"
    /\ pacerPc' = [pacerPc EXCEPT ![c] =
                     IF isActive[c] /\ ~cancelled[c] THEN "lock" ELSE "done"]
    /\ UNCHANGED << pacerSeq, dataQueue >>
    /\ UNCHANGED dataVars
    /\ UNCHANGED callVars
    /\ UNCHANGED ctlVars
    /\ UNCHANGED auxVars

\* The task with its sequenceNumber declared inside the loop: a pass that
\* finds the flag off starts the numbering again.
PacerLock_Restart(c) ==
    /\ pacerPc[c] = "lock"
    /\ globalDataGeneration => pacerSeq[c] < MaxChunks
    /\ pacerPc' = [pacerPc EXCEPT ![c] =
                     IF globalDataGeneration THEN "generate" ELSE "poll"]
    /\ pacerSeq' = [pacerSeq EXCEPT ![c] = IF globalDataGeneration THEN @ ELSE 0]
    /\ UNCHANGED dataQueue
    /\ UNCHANGED dataVars
    /\ UNCHANGED callVars
    /\ UNCHANGED ctlVars
    /\ UNCHANGED auxVars

\* Lines 164-174: shouldGenerate = _globalDataGeneration under the lock; the
\* task goes on to generate, or to Task.Delay(10, token) and continue.
PacerLock(c) ==
    /\ pacerPc[c] = "lock"
    /\ globalDataGeneration => pacerSeq[c] < MaxChunks
    /\ pacerPc' = [pacerPc EXCEPT ![c] =
                     IF globalDataGeneration THEN "generate" ELSE "poll"]
    /\ UNCHANGED << pacerSeq, dataQueue >>
    /\ UNCHANGED dataVars
    /\ UNCHANGED callVars
    /\ UNCHANGED ctlVars
    /\ UNCHANGED auxVars

\* Lines 176-208: the chunk is built with Seq = sequenceNumber++ and handed
\* to the subscriber registered under the client id, if there is one; then
\* the task sleeps for what is left of the interval (late: nothing is left).
PacerGenerate(c, late) ==
    /\ pacerPc[c] = "generate"
    /\ pacerSeq' = [pacerSeq EXCEPT ![c] = @ + 1]
    /\ dataQueue' = [dataQueue EXCEPT ![c] =
                       IF c \in subscribers THEN Append(@, NewChunk(pacerSeq[c])) ELSE @]
    /\ pacerPc' = [pacerPc EXCEPT ![c] = IF late THEN "loop" ELSE "delay"]
    /\ UNCHANGED dataVars
    /\ UNCHANGED callVars
    /\ UNCHANGED ctlVars
    /\ UNCHANGED auxVars

\* Lines 227-230: an exception out of the loop body (the synthesizer, the
\* subscriber callback) is caught and logged, and the task ends.
PacerFail(c) ==
    /\ pacerPc[c] = "generate"
    /\ pacerPc' = [pacerPc EXCEPT ![c] = "done"]
    /\ UNCHANGED << pacerSeq, dataQueue >>
    /\ UNCHANGED dataVars
    /\ UNCHANGED callVars
    /\ UNCHANGED ctlVars
    /\ UNCHANGED auxVars

\* The task waiting for the flag in a loop of its own that never reads the
\* flag again: once it polls, it polls until it is cancelled.
PacerDelay_NoReread(c) ==
    /\ pacerPc[c] \in {"delay", "poll"}
    /\ pacerPc' = [pacerPc EXCEPT ![c] =
                     IF cancelled[c] THEN "done"
                     ELSE IF @ = "poll" THEN "poll" ELSE "loop"]
    /\ UNCHANGED << pacerSeq, dataQueue >>
    /\ UNCHANGED dataVars
    /\ UNCHANGED callVars
    /\ UNCHANGED ctlVars
    /\ UNCHANGED auxVars

\* Task.Delay(.., token) of lines 172 and 207: it ends with
\* OperationCanceledException (caught at line 223, the task ends) when the
\* token is cancelled, and otherwise the loop goes round.
PacerDelay(c) ==
    /\ pacerPc[c] \in {"delay", "poll"}
    /\ pacerPc' = [pacerPc EXCEPT ![c] = IF cancelled[c] THEN "done" ELSE "loop"]
    /\ UNCHANGED << pacerSeq, dataQueue >>
    /\ UNCHANGED dataVars
    /\ UNCHANGED callVars
    /\ UNCHANGED ctlVars
    /\ UNCHANGED auxVars

----------------------------------------------------------------------------
(* DAQDataService.GenerateHighPerformanceData, the synthesizer. The fields  *)
(* of DataRequest are uint32 (daq.proto); the synthesizer computes with     *)
(* int, in the unchecked context that is the compiler's default.            *)

\* int.MaxValue and int.MinValue.
MaxInt32 == 2147483647
MinInt32 == (-MaxInt32) - 1

\* A uint32 of value top * 2^31 + low.
UInt32(top, low) == [top |-> top, low |-> low]

\* (int)u, unchecked: the int with the same 32 bits.
Int32Of(u) == IF u.top = 1 THEN (u.low - MaxInt32) - 1 ELSE u.low

\* a + b on int, unchecked: the sum modulo 2^32.
Add32(a, b) ==
    IF a >= 0 /\ b >= 0 /\ a > MaxInt32 - b
    THEN ((a - MaxInt32) - 1) + ((b - MaxInt32) - 1)
    ELSE IF a < 0 /\ b < 0 /\ a < MinInt32 - b
    THEN ((a + MaxInt32) + 1) + ((b + MaxInt32) + 1)
    ELSE a + b

\* -a on int, unchecked.
Neg32(a) == IF a = MinInt32 THEN MinInt32 ELSE -a

\* a * b on int, unchecked: the product modulo 2^32.
RECURSIVE Mul32(_, _)
Mul32(a, b) ==
    IF b = 0 THEN 0
    ELSE IF b = MinInt32 THEN (IF a % 2 = 0 THEN 0 ELSE MinInt32)
    ELSE IF b < 0 THEN Neg32(Mul32(a, -b))
    ELSE LET half == Mul32(a, b \div 2)
             twice == Add32(half, half)
         IN  IF b % 2 = 1 THEN Add32(twice, a) ELSE twice

\* Lines 243-289. The buffer has channels * samplesPerChannel * 2 bytes, a
\* product of ints: new byte[n] throws OverflowException for n < 0. The
\* loops run sample over 0..samplesPerChannel-1 and channel over
\* 0..channels-1 and write the two bytes of the sample (low byte first) at
\* sampleIndex * 2 and sampleIndex * 2 + 1, sampleIndex counting the
\* samples written: a write beyond the buffer throws
\* IndexOutOfRangeException, which happens when loops that run meet a
\* buffer whose size is not the true product. A byte no loop wrote is zero.
GenerateHighPerformanceData(req, sequenceNumber) ==
    LET channels == Int32Of(req.channels)
        samplesPerChannel == Int32Of(req.bufferSize)
        size == Mul32(Mul32(channels, samplesPerChannel), 2)
        loopsRun == samplesPerChannel > 0 /\ channels > 0
        fits == /\ size % 2 = 0
                /\ (size \div 2) % channels = 0
                /\ (size \div 2) \div channels = samplesPerChannel
    IN  IF size < 0 THEN [throws |-> "OverflowException", payload |-> << >>]
        ELSE IF loopsRun /\ ~fits
        THEN [throws |-> "IndexOutOfRangeException", payload |-> << >>]
        ELSE [throws |-> "none",
              payload |->
                [b \in 1..size |->
                    IF loopsRun
                    THEN LET sampleIndex == (b - 1) \div 2
                         IN  [sample |-> sampleIndex \div channels,
                              channel |-> sampleIndex % channels,
                              offset |-> sequenceNumber,
                              byte |-> (b - 1) % 2]
                    ELSE [sample |-> -1, channel |-> -1, offset |-> -1,
                          byte |-> 0]]]

----------------------------------------------------------------------------
(* DAQStreamService.Control and the global operations of DAQDataService    *)

\* The switch with a default arm that yields true.
Success_Always(cmd) == TRUE

\* The value each arm of the switch of lines 203-211 yields for a command
\* that runs to its end: every global operation returns true, _ => false.
Success(cmd) == cmd \in {"START", "STOP", "PAUSE", "RESUME", "RESET"}

\* What the flag is after StartGlobal/PauseGlobal/ResumeGlobalDataGeneration.
FlagAfter(cmd, flag) ==
    CASE cmd \in {"START", "RESUME"} -> TRUE
      [] cmd = "PAUSE"               -> FALSE
      [] OTHER                       -> flag

\* The Message of the Ack, as its parts: the interpolated string of line 216
\* ("command <Cmd> succeeded" or "command <Cmd> failed" in the source's
\* language), or that of line 229, the text of the exception.
AckMessage(a) ==
    IF a.success THEN << "command", a.cmd, "succeeded" >>
    ELSE IF Success(a.cmd) THEN << "exception", "ObjectDisposedException" >>
    ELSE << "command", a.cmd, "failed" >>

\* DAQHub.SendControlCommand line 138: command.ToLower().
ToLower(s) ==
    CASE s = "START"  -> "start"
      [] s = "STOP"   -> "stop"
      [] s = "PAUSE"  -> "pause"
      [] s = "RESUME" -> "resume"
      [] s = "RESET"  -> "reset"
      [] OTHER        -> s

\* The arm of the switch of DAQHub.SendControlCommand (lines 138-146) that
\* a command string selects, named as the arms of Control are.
HubArm(command) ==
    CASE ToLower(command) = "start"  -> "START"
      [] ToLower(command) = "stop"   -> "STOP"
      [] ToLower(command) = "pause"  -> "PAUSE"
      [] ToLower(command) = "resume" -> "RESUME"
      [] ToLower(command) = "reset"  -> "RESET"
      [] OTHER                       -> "UNKNOWN"

\* DAQHub.SendControlCommand lines 148-166: CommandResult to the caller and,
\* if (success), SystemStatusChanged to all clients.
HubResult(command, success) ==
    << [type |-> "CommandResult", command |-> command, success |-> success] >>
        \o (IF success
            THEN << [type |-> "SystemStatusChanged", command |-> command,
                     success |-> success] >>
            ELSE << >>)

\* DAQHub.SendControlCommand lines 168-178: CommandError to the caller.
HubError(command) ==
    << [type |-> "CommandError", command |-> command, success |-> FALSE] >>

\* Control with START, PAUSE, RESUME or a command outside the enum. The
\* controlling client sends one command at a time: it waits for the Ack.
ControlFlag(cmd) ==
    /\ cmd \in {"START", "PAUSE", "RESUME", "UNKNOWN"}
    /\ control.pc = "idle"
    /\ globalDataGeneration' = FlagAfter(cmd, globalDataGeneration)
    /\ ack' = [cmd |-> cmd, success |-> Success(cmd)]
    /\ UNCHANGED << sessions, subscribers, isActive, cancelled, disposed >>
    /\ UNCHANGED << control, dataQueue, hub >>
    /\ UNCHANGED pacerVars
    /\ UNCHANGED callVars
    /\ UNCHANGED auxVars

\* DAQHub.SendControlCommand with a string of the start, pause or resume arm
\* or of no arm.
HubFlag(command) ==
    /\ HubArm(command) \in {"START", "PAUSE", "RESUME", "UNKNOWN"}
    /\ control.pc = "idle"
    /\ globalDataGeneration' = FlagAfter(HubArm(command), globalDataGeneration)
    /\ hub' = HubResult(command, Success(HubArm(command)))
    /\ UNCHANGED << sessions, subscribers, isActive, cancelled, disposed >>
    /\ UNCHANGED << control, dataQueue, ack >>
    /\ UNCHANGED pacerVars
    /\ UNCHANGED callVars
    /\ UNCHANGED auxVars

\* Control with STOP or RESET, lines 87-93 of StopGlobalDataGeneration: the
\* flag goes off and foreach takes its snapshot of _sessions.Values.
ControlStopBegin(cmd) ==
    /\ cmd \in {"STOP", "RESET"}
    /\ control.pc = "idle"
    /\ globalDataGeneration' = FALSE
    /\ control' = [pc |-> "stopping", cmd |-> cmd, todo |-> sessions,
                   snap |-> sessions, via |-> "rpc", arg |-> cmd]
    /\ ack' = NoAck
    /\ UNCHANGED << sessions, subscribers, isActive, cancelled, disposed >>
    /\ UNCHANGED << dataQueue, hub >>
    /\ UNCHANGED pacerVars
    /\ UNCHANGED callVars
    /\ UNCHANGED auxVars

\* DAQHub.SendControlCommand with a string of the stop or reset arm: the same
\* beginning of StopGlobalDataGeneration.
HubStopBegin(command) ==
    /\ HubArm(command) \in {"STOP", "RESET"}
    /\ control.pc = "idle"
    /\ globalDataGeneration' = FALSE
    /\ control' = [pc |-> "stopping", cmd |-> HubArm(command), todo |-> sessions,
                   snap |-> sessions, via |-> "hub", arg |-> command]
    /\ hub' = << >>
    /\ UNCHANGED << sessions, subscribers, isActive, cancelled, disposed >>
    /\ UNCHANGED << dataQueue, ack >>
    /\ UNCHANGED pacerVars
    /\ UNCHANGED callVars
    /\ UNCHANGED auxVars

\* What the caller of the STOP or RESET in progress gets when it ends: the
\* Ack of Control, or the messages of SendControlCommand (error: the
\* operation threw).
Reply(success, error) ==
    IF control.via = "rpc"
    THEN /\ ack' = [cmd |-> control.cmd, success |-> success]
         /\ UNCHANGED hub
    ELSE /\ hub' = IF error THEN HubError(control.arg)
                   ELSE HubResult(control.arg, success)
         /\ UNCHANGED ack

\* Lines 93-97, one pass of the foreach body: session.IsActive = false;
\* session.CancellationTokenSource.Cancel(). Cancel() on a source that was
\* disposed throws ObjectDisposedException, which ends the foreach and is
\* caught in Control (lines 223-232): Ack with Success = false.
ControlStopSession(c) ==
    /\ control.pc = "stopping"
    /\ c \in control.todo
    /\ isActive' = [isActive EXCEPT ![c] = FALSE]
    /\ IF disposed[c]
       THEN /\ control' = Idle
            /\ Reply(FALSE, TRUE)
            /\ UNCHANGED cancelled
       ELSE /\ cancelled' = [cancelled EXCEPT ![c] = TRUE]
            /\ control' = [control EXCEPT !.todo = @ \ {c}]
            /\ UNCHANGED << ack, hub >>
    /\ UNCHANGED << globalDataGeneration, sessions, subscribers, disposed >>
    /\ UNCHANGED dataQueue
    /\ UNCHANGED pacerVars
    /\ UNCHANGED callVars
    /\ UNCHANGED auxVars

\* The foreach is over: STOP returns true; RESET goes on to Task.Delay(100).
ControlStopEnd ==
    /\ control.pc = "stopping"
    /\ control.todo = {}
    /\ IF control.cmd = "STOP"
       THEN /\ control' = Idle
            /\ Reply(Success("STOP"), FALSE)
       ELSE /\ control' = [control EXCEPT !.pc = "resetDelay"]
            /\ UNCHANGED << ack, hub >>
    /\ UNCHANGED dataQueue
    /\ UNCHANGED dataVars
    /\ UNCHANGED pacerVars
    /\ UNCHANGED callVars
    /\ UNCHANGED auxVars

\* Lines 126-129 of ResetGlobalDataGeneration: after the delay,
\* StartGlobalDataGeneration, and RESET returns true.
ControlResetStart ==
    /\ control.pc = "resetDelay"
    /\ globalDataGeneration' = TRUE
    /\ control' = Idle
    /\ Reply(Success("RESET"), FALSE)
    /\ UNCHANGED << sessions, subscribers, isActive, cancelled, disposed >>
    /\ UNCHANGED dataQueue
    /\ UNCHANGED pacerVars
    /\ UNCHANGED callVars
    /\ UNCHANGED auxVars

----------------------------------------------------------------------------

\* One step of the service with Subscribe calls S, requests R and commands K.
NextFor(S, R, K) ==
    \/ \E c \in S, req \in R : SubscribeBegin(c, req)
    \/ \E c \in S : SubscribeRegister(c)
    \/ \E c \in S : TransportLoop(c)
    \/ \E c \in S : TransportBatch(c)
    \/ \E c \in S : TransportWriteFail(c)
    \/ \E c \in S : TransportWait(c)
    \/ \E c \in S : SubscribeFinally(c)
    \/ \E c \in S : Disconnect(c)
    \/ \E c \in S : PacerLoop(c)
    \/ \E c \in S : PacerLock(c)
    \/ \E c \in S, late \in BOOLEAN : PacerGenerate(c, late)
    \/ \E c \in S : PacerDelay(c)
    \/ \E cmd \in K : ControlFlag(cmd)
    \/ \E cmd \in K : ControlStopBegin(cmd)
    \/ \E c \in S : ControlStopSession(c)
    \/ ControlStopEnd
    \/ ControlResetStart

\* What the runtime schedules without any outside event: the generation task
\* of a session, the Subscribe call once it was accepted, and a STOP or RESET
\* that has begun. Not fair: the arrival of calls and commands, the client
\* going away, a write that fails.
PacerStep(c) ==
    PacerLoop(c) \/ PacerLock(c) \/ PacerDelay(c)
        \/ \E late \in BOOLEAN : PacerGenerate(c, late)

CallStep(c) ==
    SubscribeRegister(c) \/ TransportLoop(c) \/ TransportBatch(c)
        \/ TransportWait(c) \/ SubscribeFinally(c)

ControlStep ==
    ControlStopEnd \/ ControlResetStart \/ \E c \in Clients : ControlStopSession(c)

Fairness(S) ==
    /\ \A c \in S : WF_vars(PacerStep(c)) /\ WF_vars(CallStep(c))
    /\ WF_vars(ControlStep)

\* One Subscribe call, every request, every command.
Solo == {1}
Next == NextFor(Solo, Requests, Commands)
Spec == Init /\ [][Next]_vars
FairSpec == Spec /\ Fairness(Solo)

\* Two Subscribe calls on a service that was never started (the flag is off
\* from construction on, so the tasks poll) and that is sent STOP: the steps
\* of Next that can be taken then.
PairNext ==
    \/ \E c \in Clients, req \in Requests : SubscribeBegin(c, req)
    \/ \E c \in Clients : SubscribeRegister(c)
    \/ \E c \in Clients : TransportLoop(c)
    \/ \E c \in Clients : TransportBatch(c)
    \/ \E c \in Clients : TransportWait(c)
    \/ \E c \in Clients : SubscribeFinally(c)
    \/ \E c \in Clients : Disconnect(c)
    \/ \E c \in Clients : PacerLoop(c)
    \/ \E c \in Clients : PacerLock(c)
    \/ \E c \in Clients : PacerDelay(c)
    \/ ControlStopBegin("STOP")
    \/ \E c \in Clients : ControlStopSession(c)
    \/ ControlStopEnd
PairSpec == Init /\ [][PairNext]_vars
PairFairSpec == PairSpec /\ Fairness(Clients)

\* The one streaming call of Spec, and beside it a second call, with a
\* request that fails the validation.
Rejected == {2}
RejectedNext ==
    \/ \E c \in Rejected, req \in {r \in Requests : ~ValidRequest(r)} :
            SubscribeBegin(c, req)
    \/ \E c \in Rejected : SubscribeFinally(c)
RejectSpec == Init /\ [][Next \/ RejectedNext]_vars

\* Two sessions one after the other: the call of Spec, served with START
\* and STOP, and a later call that arrives when a STOP was acknowledged and
\* the earlier call and its task have ended.
Later == {2}
Valid == {r \in Requests : ValidRequest(r)}
LaterNext ==
    \/ \E c \in Solo, req \in Valid : SubscribeBegin(c, req)
    \/ \E c \in Later, req \in Valid :
          /\ ack = [cmd |-> "STOP", success |-> TRUE]
          /\ \A d \in Solo : callPc[d] = "done" /\ pacerPc[d] = "done"
          /\ SubscribeBegin(c, req)
    \/ \E c \in Solo \cup Later : SubscribeRegister(c)
    \/ \E c \in Solo \cup Later : TransportLoop(c)
    \/ \E c \in Solo \cup Later : TransportBatch(c)
    \/ \E c \in Solo \cup Later : TransportWait(c)
    \/ \E c \in Solo \cup Later : SubscribeFinally(c)
    \/ \E c \in Solo \cup Later : Disconnect(c)
    \/ \E c \in Solo \cup Later : PacerLoop(c)
    \/ \E c \in Solo \cup Later : PacerLock(c)
    \/ \E c \in Solo \cup Later, late \in BOOLEAN : PacerGenerate(c, late)
    \/ \E c \in Solo \cup Later : PacerDelay(c)
    \/ ControlFlag("START")
    \/ ControlStopBegin("STOP")
    \/ \E c \in Solo \cup Later : ControlStopSession(c)
    \/ ControlStopEnd
LaterSpec == Init /\ [][LaterNext]_vars

\* The call of Spec on a service that is commanded over the SignalR hub,
\* and over Control with a command outside the enum.
HubNext ==
    \/ \E c \in Solo, req \in Valid : SubscribeBegin(c, req)
    \/ \E c \in Solo : SubscribeRegister(c)
    \/ \E c \in Solo : TransportLoop(c)
    \/ \E c \in Solo : TransportBatch(c)
    \/ \E c \in Solo : TransportWait(c)
    \/ \E c \in Solo : SubscribeFinally(c)
    \/ \E c \in Solo : Disconnect(c)
    \/ \E c \in Solo : PacerLoop(c)
    \/ \E c \in Solo : PacerLock(c)
    \/ \E c \in Solo, late \in BOOLEAN : PacerGenerate(c, late)
    \/ \E c \in Solo : PacerDelay(c)
    \/ ControlFlag("UNKNOWN")
    \/ \E command \in HubCommands : HubFlag(command)
    \/ \E command \in HubCommands : HubStopBegin(command)
    \/ \E c \in Solo : ControlStopSession(c)
    \/ ControlStopEnd
    \/ ControlResetStart
HubSpec == Init /\ [][HubNext]_vars

\* Two sessions side by side on a service that is sent START. The first may
\* fail: its client goes away, a write to its stream fails, its generation
\* task throws.
Pair == Solo \cup Later
FailNext ==
    \/ \E c \in Pair, req \in Valid : SubscribeBegin(c, req)
    \/ \E c \in Pair : SubscribeRegister(c)
    \/ \E c \in Pair : TransportLoop(c)
    \/ \E c \in Pair : TransportBatch(c)
    \/ \E c \in Solo : TransportWriteFail(c)
    \/ \E c \in Pair : TransportWait(c)
    \/ \E c \in Solo : SubscribeFinally(c)
    \/ \E c \in Solo : Disconnect(c)
    \/ \E c \in Pair : PacerLoop(c)
    \/ \E c \in Pair : PacerLock(c)
    \/ \E c \in Pair : PacerGenerate(c, FALSE)
    \/ \E c \in Solo : PacerFail(c)
    \/ \E c \in Pair : PacerDelay(c)
    \/ ControlFlag("START")
FailSpec == Init /\ [][FailNext]_vars
FailFairSpec == FailSpec /\ Fairness(Pair)

\* The synthesizer by itself: one call of GenerateHighPerformanceData with a
\* request that passes the validation of Subscribe, fields small, 2^30 and
\* 2^31, and a sequence number a task reaches.
SynthChannels ==
    {UInt32(0, 1), UInt32(0, 2), UInt32(0, 3), UInt32(0, 1073741824), UInt32(1, 0)}
SynthRates == {UInt32(0, 1), UInt32(0, 1000)}
SynthBufferSizes == {UInt32(0, 1), UInt32(0, 2), UInt32(0, 4), UInt32(1, 0)}
SynthRequests ==
    { [channels |-> ch, sampleRate |-> r, bufferSize |-> n] :
        ch \in SynthChannels, r \in SynthRates, n \in SynthBufferSizes }

SynthInit ==
    /\ PipeInit
    /\ SignalrIdle
    /\ PacingIdle
    /\ MockIdle
    /\ ChartIdle
    /\ RingIdle
    /\ LodIdle
    /\ MonIdle
    /\ CodecIdle
    /\ RealDataIdle
    /\ StreamerIdle
    /\ \E req \in SynthRequests, n \in 0..MaxChunks :
          synth = [request |-> req, sequenceNumber |-> n, result |-> Pending]

Synthesize ==
    /\ synth.result = Pending
    /\ synth # NoSynth
    /\ synth' = [synth EXCEPT !.result =
                    GenerateHighPerformanceData(synth.request, synth.sequenceNumber)]
    /\ UNCHANGED restOfSynth

SynthNext == Synthesize
SynthSpec == SynthInit /\ [][SynthNext]_vars

----------------------------------------------------------------------------
(* Properties                                                              *)

\* C1: for every session the seq values of the chunks written to its stream
\* are 0, 1, 2, ... in write order, with no gap and no repeat.
C1_StreamSeqContiguous ==
    \A c \in Clients : \A i \in 1..Len(stream[c]) : stream[c][i].seq = i - 1

\* Two chunks of one session are on the wire.
C1_Witness ==
    \E c \in Clients : Len(stream[c]) >= 2

\* A request that fails the validation of Subscribe.
ZeroField(req) == req.channels = 0 \/ req.sampleRate = 0 \/ req.bufferSize = 0

\* C2: a Subscribe call with channels, sampleRate or bufferSize 0 ends with
\* status InvalidArgument.
C2_InvalidArgumentStatus ==
    \A c \in Clients :
        (callPc[c] = "done" /\ ZeroField(request[c])) => status[c] = "InvalidArgument"

\* C3: a Subscribe call rejected for a zero field adds no session, starts no
\* task, registers no subscriber and writes no chunk, and no step of it
\* changes the session table or the subscriber table.
C3_Rejected(c) == callPc[c] # "idle" /\ ZeroField(request[c])

C3_RejectedLeavesNoTrace ==
    /\ [](\A c \in Clients :
            C3_Rejected(c) =>
                /\ c \notin sessions
                /\ c \notin subscribers
                /\ pacerPc[c] = "none"
                /\ dataQueue[c] = << >>
                /\ stream[c] = << >>)
    /\ [][\A c \in Clients :
            (C3_Rejected(c)' /\ callPc'[c] # callPc[c]) =>
                sessions' = sessions /\ subscribers' = subscribers]_vars

\* A call was rejected and has ended while another session is in the tables
\* and has chunks on its stream.
C3_Witness ==
    \E c, d \in Clients :
        /\ callPc[c] = "done"
        /\ ZeroField(request[c])
        /\ d \in sessions
        /\ d \in subscribers
        /\ stream[d] # << >>

\* The documented state machine CREATED -> STREAMING <-> PAUSED -> STOPPED:
\* the state the command acknowledged last leaves it in, and the commands
\* that are a move or a no-op from a state.
StateAfter(cmd) ==
    CASE cmd = "NONE"  -> "CREATED"
      [] cmd = "PAUSE" -> "PAUSED"
      [] cmd = "STOP"  -> "STOPPED"
      [] OTHER         -> "STREAMING"

Legal(m, cmd) ==
    CASE cmd = "START"  -> m \in {"CREATED", "STREAMING"}
      [] cmd = "PAUSE"  -> m \in {"STREAMING", "PAUSED"}
      [] cmd = "RESUME" -> m \in {"STREAMING", "PAUSED"}
      [] OTHER          -> FALSE

\* C4: Control with START, PAUSE or RESUME returns success = true if and only
\* if the command is a move or a no-op from the state the machine is in (the
\* state the previous acknowledged command left it in).
C4_SuccessIffLegal ==
    [][(/\ ack' # ack
        /\ ack'.cmd \in {"START", "PAUSE", "RESUME"}
        /\ (ack = NoAck \/ ack.success))
         => (ack'.success <=> Legal(StateAfter(ack.cmd), ack'.cmd))]_vars

\* C5: once a STOP has begun, the generation task of every session that was
\* in the table then eventually ends.
C5_StopEndsTasks ==
    \A c \in Clients :
        (control.pc = "stopping" /\ c \in control.todo) ~> (pacerPc[c] = "done")

\* C6: once the cancellation handle of a session was fired, the transport
\* loop of its Subscribe call eventually exits.
C6_CancelEndsTransport ==
    \A c \in Clients : cancelled[c] ~> (callPc[c] \in {"finally", "done"})

\* C7: once a session has been cancelled no further chunk is written to its
\* stream.
C7_NoWriteAfterCancel ==
    [][\A c \in Clients : cancelled[c] => stream'[c] = stream[c]]_vars

\* C8: from the moment a PAUSE or STOP has returned until the next command,
\* no generation task generates or delivers a chunk.
C8_NoChunkWhileDisabled ==
    [][\A c \in Clients :
        (ack.cmd \in {"PAUSE", "STOP"} /\ ack.success /\ ack' = ack)
            => (/\ pacerSeq'[c] = pacerSeq[c]
                /\ Len(dataQueue'[c]) <= Len(dataQueue[c]))]_vars

\* C9: a PAUSE or RESUME step changes nothing of the sessions (table,
\* subscribers, active flags, cancellation handles, sequence counters, tasks),
\* and a task's sequence counter only ever goes up by one, the chunk it
\* hands over carrying the number the counter had: numbering continues
\* over a pause.
C9_PauseResumeKeepSessions ==
    /\ [][(ack'.cmd \in {"PAUSE", "RESUME"}
            /\ << ack, globalDataGeneration >>' # << ack, globalDataGeneration >>)
          => UNCHANGED << sessions, subscribers, isActive, cancelled, disposed,
                          pacerSeq, pacerPc, dataQueue >>]_vars
    /\ [][\A c \in Clients :
            pacerSeq'[c] # pacerSeq[c] =>
                /\ pacerSeq'[c] = pacerSeq[c] + 1
                /\ c \in subscribers =>
                     dataQueue'[c] = Append(dataQueue[c], NewChunk(pacerSeq[c]))]_vars

\* A task polls, having found the flag off after its first chunk, and RESUME
\* has put the flag on again: its counter still stands where it was.
C9_Witness ==
    \E c \in Clients :
        /\ pacerPc[c] = "poll"
        /\ pacerSeq[c] >= 1
        /\ ack = [cmd |-> "RESUME", success |-> TRUE]
        /\ globalDataGeneration
        /\ c \in sessions
        /\ isActive[c] /\ ~cancelled[c]

\* C10: while the flag stays on, a session that is not cancelled eventually
\* generates its next chunk, and hands it to its subscriber once that is
\* registered (below the bound on the chunks of a task).
C10_Live(c, k) ==
    /\ globalDataGeneration
    /\ pacerPc[c] # "none"
    /\ isActive[c] /\ ~cancelled[c]
    /\ pacerSeq[c] = k

C10_Off(c) == ~globalDataGeneration \/ cancelled[c] \/ ~isActive[c]

C11_ResetIsStopThenStart ==
    /\ [][(ack' # ack /\ ack'.cmd = "RESET") =>
            /\ globalDataGeneration'
            /\ \A c \in control.snap : cancelled'[c] /\ ~isActive'[c]]_vars
    /\ [](\A c \in Clients : stream[c] # << >> => stream[c][1].seq = 0)

\* C12: a session created by a Subscribe that follows a global STOP starts
\* from nothing (no chunk queued or written, both sequence counters 0), and
\* the first chunk written to a stream has seq = 0 whatever the streams of
\* earlier sessions hold.
C12_FreshSequenceAfterStop ==
    /\ [][\A c \in Clients :
            (callPc[c] = "idle" /\ callPc'[c] = "register") =>
                /\ sendSeq'[c] = 0 /\ pacerSeq'[c] = 0
                /\ dataQueue'[c] = << >> /\ stream'[c] = << >>]_vars
    /\ [][\A c \in Clients :
            (stream[c] = << >> /\ stream'[c] # << >>) =>
                (Len(stream'[c]) = 1 /\ stream'[c][1].seq = 0)]_vars

\* The earlier session wrote chunks, a STOP was acknowledged, and the later
\* session has written its first chunk.
C12_Witness ==
    \E c \in Solo, d \in Later :
        /\ Len(stream[c]) >= 1
        /\ cancelled[c]
        /\ stream[d] # << >>

\* C13: when a Subscribe call that was accepted has ended (client disconnect
\* or write failure), the cancellation handle of its session has been fired
\* and the session is neither in the session table nor in the subscriber
\* table.
C13_EndedCallTornDown ==
    \A c \in Clients :
        (callPc[c] = "done" /\ ~ZeroField(request[c])) =>
            /\ cancelled[c]
            /\ c \notin sessions
            /\ c \notin subscribers

\* C14: no STOP raises an error (the foreach never fires the cancellation
\* handle of a session whose handle was released, and every STOP is
\* acknowledged with success), and no teardown releases a handle that was
\* released before.
C14_CancelIdempotent ==
    /\ [][\A c \in Clients :
            (c \in control.todo /\ c \notin control'.todo) => ~disposed[c]]_vars
    /\ [](ack.cmd = "STOP" => ack.success)
    /\ [][\A c \in Clients :
            (callPc[c] = "finally" /\ callPc'[c] = "done" /\ c \in sessions)
                => ~disposed[c]]_vars

\* C15: when a STOP completes (its Ack arrives), no session that was in the
\* session table when the STOP began is in the table any more.
C15_StopDestroysSessions ==
    [][(ack' # ack /\ ack'.cmd = "STOP") =>
          \A c \in control.snap : c \notin sessions']_vars

\* C16: once the handle of a session was fired by STOP (fired and not
\* released: only the foreach of STOP does that), the task of the session
\* never again finds the flag on and sets out to generate a chunk, whatever
\* commands follow.
C16_StoppedIsTerminal ==
    [][\A c \in Clients :
        (cancelled[c] /\ ~disposed[c]) =>
            ~(pacerPc[c] = "lock" /\ pacerPc'[c] = "generate")]_vars

\* C17: START, STOP, PAUSE and RESUME are idempotent. Every one of them is
\* acknowledged with success, in whatever state it is issued; the flag an
\* acknowledged START, PAUSE or RESUME leaves is the flag the same command
\* would leave again; and a STOP that visits a session a STOP has stopped
\* before changes nothing of the sessions.
C17_CommandsIdempotent ==
    /\ [](ack.cmd \in {"START", "STOP", "PAUSE", "RESUME"} => ack.success)
    /\ [](ack.cmd \in {"START", "PAUSE", "RESUME"} =>
            FlagAfter(ack.cmd, globalDataGeneration) = globalDataGeneration)
    /\ [](ack.cmd = "STOP" => ~globalDataGeneration)
    /\ [][\A c \in Clients :
            (/\ control.cmd = "STOP"
             /\ c \in control.todo /\ c \notin control'.todo
             /\ cancelled[c] /\ ~isActive[c])
                => UNCHANGED << sessions, subscribers, isActive, cancelled,
                                disposed >>]_vars

\* C18: Control with a command outside the enum returns an Ack with
\* success = false and a message that is not empty, and
\* SendControlCommand with a string of no arm sends the caller one
\* CommandResult with success = false and nothing else (no
\* SystemStatusChanged); neither changes the flag or anything of a session.
C18_UnknownCommandFails ==
    /\ [][(ack' # ack /\ ack'.cmd = "UNKNOWN") =>
            /\ ~ack'.success
            /\ AckMessage(ack') # << >>
            /\ UNCHANGED << globalDataGeneration, sessions, subscribers,
                            isActive, cancelled, disposed, pacerPc, pacerSeq,
                            dataQueue, stream >>]_vars
    /\ [][(hub' # hub /\ hub' # << >> /\ hub'[1].command = "bogus") =>
            /\ hub' = << [type |-> "CommandResult", command |-> "bogus",
                          success |-> FALSE] >>
            /\ UNCHANGED << globalDataGeneration, sessions, subscribers,
                            isActive, cancelled, disposed, pacerPc, pacerSeq,
                            dataQueue, stream >>]_vars

\* Both channels have answered an unrecognised command while a session is
\* live and the flag is on.
C18_Witness ==
    /\ ack = [cmd |-> "UNKNOWN", success |-> FALSE]
    /\ Len(hub) = 1 /\ hub[1].command = "bogus"
    /\ globalDataGeneration
    /\ \E c \in sessions : isActive[c] /\ ~cancelled[c]

\* C19: a step of the failure of one session (its client goes away, its
\* call leaves the transport loop or ends, its generation task throws)
\* leaves the flag and, of every other session, the table entries, the
\* active flag, the cancellation handle, both sequence counters, the task,
\* the queue and the stream as they were; and another session that is live
\* with the flag on goes on to generate chunks (all the chunks of a task)
\* unless it fails itself.
C19_Fails(c) ==
    \/ ctx'[c] # ctx[c]
    \/ callPc'[c] # callPc[c] /\ callPc'[c] \in {"finally", "done"}
    \/ pacerPc[c] = "generate" /\ pacerPc'[c] = "done"

C19_Failed(c) == callPc[c] \in {"finally", "done"} \/ pacerPc[c] = "done"

C19_FailureIsLocal ==
    /\ [][\A c \in Clients :
            C19_Fails(c) =>
                /\ globalDataGeneration' = globalDataGeneration
                /\ \A d \in Clients \ {c} :
                     /\ (d \in sessions') = (d \in sessions)
                     /\ (d \in subscribers') = (d \in subscribers)
                     /\ isActive'[d] = isActive[d]
                     /\ cancelled'[d] = cancelled[d]
                     /\ disposed'[d] = disposed[d]
                     /\ pacerPc'[d] = pacerPc[d]
                     /\ pacerSeq'[d] = pacerSeq[d]
                     /\ sendSeq'[d] = sendSeq[d]
                     /\ dataQueue'[d] = dataQueue[d]
                     /\ stream'[d] = stream[d]]_vars
    /\ \A d \in Later :
          (/\ globalDataGeneration
           /\ pacerPc[d] # "none" /\ isActive[d] /\ ~cancelled[d]
           /\ ~C19_Failed(d)
           /\ \E c \in Clients \ {d} : C19_Failed(c))
              ~> (C10_Off(d) \/ C19_Failed(d) \/ pacerSeq[d] = MaxChunks)

\* One session has failed and its call has ended with a broken stream, and
\* the other is live and has generated and written chunks.
C19_Witness ==
    \E c, d \in Clients :
        /\ c # d
        /\ callPc[c] = "done" /\ status[c] = "Internal"
        /\ d \in sessions /\ isActive[d] /\ ~cancelled[d]
        /\ pacerSeq[d] = MaxChunks
        /\ stream[d] # << >>

\* C20: a chunk generated for a request with channels, sampleRate and
\* bufferSize all > 0 has a payload of channels * bufferSize * 2 bytes, and
\* the sample of channel ch at sample slot i is in bytes (i*channels + ch)*2
\* and (i*channels + ch)*2 + 1 (for the first SlotProbe channels and slots).
SlotProbe == 4

\* n = channels * bufferSize * 2 for the uint32 fields of the request, said
\* without the product.
C20_IsPayloadSize(n, req) ==
    /\ req.channels.top = 0
    /\ n % 2 = 0
    /\ (n \div 2) % req.channels.low = 0
    /\ req.bufferSize = UInt32(0, (n \div 2) \div req.channels.low)

C20_Probe(u) == IF u.top = 1 \/ u.low > SlotProbe THEN SlotProbe ELSE u.low

C20_PayloadLayout ==
    synth.result.throws = "none" =>
        LET req == synth.request
            payload == synth.result.payload
        IN  /\ C20_IsPayloadSize(Len(payload), req)
            /\ \A ch \in 0..(C20_Probe(req.channels) - 1) :
               \A i \in 0..(C20_Probe(req.bufferSize) - 1) :
               \A byte \in 0..1 :
                  LET at == (i * req.channels.low + ch) * 2 + byte
                  IN  /\ at < Len(payload)
                      /\ payload[at + 1].sample = i
                      /\ payload[at + 1].channel = ch
                      /\ payload[at + 1].byte = byte

----------------------------------------------------------------------------
(* Browser client: CircularBuffer (src/web/src/services/grpcClient.ts)     *)

\* Largest capacity a buffer is constructed with.
MaxCapacity == 3
\* Pushes a buffer sees at most.
MaxPushes == 5

\* The numbers 2^24 and above sit on a grid of 2, 4, ... in a Float32Array.
Float32Exact == 16777216

RECURSIVE Ulp(_)
Ulp(x) == IF x < Float32Exact THEN 1 ELSE 2 * Ulp(x \div 2)

\* What an element of a Float32Array holds after the assignment of the
\* integer x: the nearest float32, ties to the even mantissa.
Fround(x) ==
    LET a == IF x < 0 THEN -x ELSE x
        u == Ulp(a)
        q == a \div u
        r == a % u
        m == IF 2 * r < u THEN q
             ELSE IF 2 * r > u THEN q + 1
             ELSE IF q % 2 = 0 THEN q ELSE q + 1
    IN  IF x < 0 THEN -(m * u) ELSE m * u

\* Sample values pushed: elements of the Float32Array of a channel.
Values == {1, 2}

\* const time = (frameCountRef.current * channelData.length + i) / sampleRate,
\* for i = 0, step, 2 * step, ...: the time of push n of a frame is
\* TimeOf(base, n), base the time of the frame's first sample. A frame that
\* begins at 0 and one that begins past 2^24, with step / sampleRate = 4.
TimeStep == 4
TimeBases == {0, Float32Exact + 1}
TimeOf(base, n) == base + TimeStep * n

\* constructor(size): the two arrays are allocated (objects id and id + 1)
\* and zero-filled.
CircularBuffer(size, id) ==
    [size |-> size,
     buffer |-> [i \in 0..(size - 1) |-> 0],
     timeBuffer |-> [i \in 0..(size - 1) |-> 0],
     writeIndex |-> 0,
     isFull |-> FALSE,
     bufferId |-> id,
     timeBufferId |-> id + 1]

push(b, value, time) ==
    LET next == (b.writeIndex + 1) % b.size
    IN  [b EXCEPT !.buffer[b.writeIndex] = Fround(value),
                  !.timeBuffer[b.writeIndex] = Fround(time),
                  !.writeIndex = next,
                  !.isFull = IF next = 0 THEN TRUE ELSE @]

\* A snapshot that never reorders: the first length slots as they lie.
getData_NoRotate(b) ==
    LET length == IF b.isFull THEN b.size ELSE b.writeIndex
    IN  [values |-> [i \in 1..length |-> b.buffer[i - 1]],
         times |-> [i \in 1..length |-> b.timeBuffer[i - 1]],
         length |-> length]

\* values and times are returned as sequences: element i of the returned
\* array is element i + 1 here.
getData(b) ==
    LET length == IF b.isFull THEN b.size ELSE b.writeIndex
    IN  IF b.isFull
        THEN [values |-> [i \in 1..length |->
                             b.buffer[(b.writeIndex + (i - 1)) % b.size]],
              times |-> [i \in 1..length |->
                             b.timeBuffer[(b.writeIndex + (i - 1)) % b.size]],
              length |-> length]
        ELSE [values |-> [i \in 1..length |-> b.buffer[i - 1]],
              times |-> [i \in 1..length |-> b.timeBuffer[i - 1]],
              length |-> length]

\* A clear that forgets the full flag.
clear_KeepFull(b) == [b EXCEPT !.writeIndex = 0]

\* A clear that allocates fresh arrays.
clear_Realloc(b) ==
    [b EXCEPT !.writeIndex = 0, !.isFull = FALSE,
              !.buffer = [i \in 0..(b.size - 1) |-> 0],
              !.timeBuffer = [i \in 0..(b.size - 1) |-> 0],
              !.bufferId = @ + 2, !.timeBufferId = @ + 2]

clear(b) == [b EXCEPT !.writeIndex = 0, !.isFull = FALSE]

\* A buffer of some capacity, just constructed, and the time of the first
\* sample it will be given.
RingInit ==
    /\ PipeInit
    /\ SignalrIdle
    /\ PacingIdle
    /\ MockIdle
    /\ ChartIdle
    /\ SynthIdle
    /\ LodIdle
    /\ MonIdle
    /\ CodecIdle
    /\ RealDataIdle
    /\ StreamerIdle
    /\ \E size \in 1..MaxCapacity : ring = CircularBuffer(size, 1)
    /\ \E base \in TimeBases : ringLog = [NewRingLog EXCEPT !.base = base]

\* buffer.push(channelData[i], time) of convertDataToPlot.
RingPush(value) ==
    /\ ringLog.clock < MaxPushes
    /\ ring' = push(ring, value, TimeOf(ringLog.base, ringLog.clock))
    /\ ringLog' = [ringLog EXCEPT
                      !.op = "push",
                      !.pushed = Append(@, << value, TimeOf(ringLog.base, ringLog.clock) >>),
                      !.clock = @ + 1]
    /\ UNCHANGED restOfRing

\* buffer.clear()
RingClear ==
    /\ ring' = clear(ring)
    /\ ringLog' = [ringLog EXCEPT !.op = IF ring.isFull THEN "clearFull" ELSE "clear",
                                  !.pushed = << >>,
                                  !.cleared = TRUE,
                                  !.stale = {Fround(TimeOf(ringLog.base, n)) :
                                                n \in 0..(ringLog.clock - 1)}]
    /\ UNCHANGED restOfRing

RingNext ==
    \/ \E value \in Values : RingPush(value)
    \/ RingClear
RingSpec == RingInit /\ [][RingNext]_vars

\* The pair a push leaves in the two arrays.
Stored(pair) == << Fround(pair[1]), Fround(pair[2]) >>

\* Entry i of a snapshot.
Entry(snap, i) == << snap.values[i], snap.times[i] >>

\* The snapshot holds the last n pushes of the log, in push order, each as
\* As(pair) gives it.
HoldsLast(snap, n, As(_)) ==
    /\ snap.length = n
    /\ \A i \in 1..n : Entry(snap, i) = As(ringLog.pushed[Len(ringLog.pushed) - n + i])

AsPushed(pair) == pair

\* C21 as stated: the snapshot is never longer than the capacity, and on a
\* buffer never cleared that saw at least capacity pushes it has the length
\* of the capacity and holds exactly the pushed (value, time) pairs of the
\* most recent capacity pushes, in push order.
C21_SnapshotHoldsPushed ==
    /\ getData(ring).length <= ring.size
    /\ (~ringLog.cleared /\ Len(ringLog.pushed) >= ring.size)
          => HoldsLast(getData(ring), ring.size, AsPushed)

\* C21 amended: the snapshot is never longer than the capacity, and on a
\* buffer never cleared that saw at least capacity pushes it has the length
\* of the capacity and holds the most recent capacity pushes in push order,
\* each number rounded to float32.
C21_SnapshotHoldsStored ==
    /\ getData(ring).length <= ring.size
    /\ (~ringLog.cleared /\ Len(ringLog.pushed) >= ring.size)
          => HoldsLast(getData(ring), ring.size, Stored)

\* A buffer of capacity 3, never cleared, after 5 pushes.
C21_Witness ==
    /\ ring.size = 3
    /\ ~ringLog.cleared
    /\ Len(ringLog.pushed) = 5
    /\ ringLog.base > Float32Exact
    /\ getData(ring).times = << Float32Exact + 8, Float32Exact + 12, Float32Exact + 16 >>

\* C22 as stated: a buffer pushed to fewer times than its capacity since it
\* was created or last cleared is not full, its snapshot is exactly the
\* entries pushed since then, in push order, and none of its entries was
\* written before the last clear.
C22_PrefixIsPushed ==
    Len(ringLog.pushed) < ring.size =>
        /\ ~ring.isFull
        /\ HoldsLast(getData(ring), Len(ringLog.pushed), AsPushed)
        /\ \A i \in 1..getData(ring).length : getData(ring).times[i] \notin ringLog.stale

\* C22 amended: a buffer pushed to fewer times than its capacity since it
\* was created or last cleared is not full, its snapshot is the entries
\* pushed since then, in push order and each number rounded to float32, and
\* none of its entries was written before the last clear.
C22_PrefixIsStored ==
    Len(ringLog.pushed) < ring.size =>
        /\ ~ring.isFull
        /\ HoldsLast(getData(ring), Len(ringLog.pushed), Stored)
        /\ \A i \in 1..getData(ring).length : getData(ring).times[i] \notin ringLog.stale

\* A buffer that had wrapped, was cleared and then pushed to once: the
\* slots behind the write index still hold what was written before the clear.
C22_Witness ==
    /\ ring.size = 3
    /\ ~ring.isFull
    /\ Cardinality(ringLog.stale) = 4
    /\ Len(ringLog.pushed) = 1
    /\ ring.timeBuffer[1] \in ringLog.stale
    /\ getData(ring).times = << Float32Exact + 16 >>

\* C23: a clear leaves the write index 0 and the full flag false, the
\* capacity and the two arrays (the objects, their lengths and what they
\* hold) as they were, and the snapshot empty.
C23_ClearFrame ==
    [][ RingClear =>
          /\ ring'.writeIndex = 0
          /\ ring'.isFull = FALSE
          /\ ring'.size = ring.size
          /\ ring'.bufferId = ring.bufferId
          /\ ring'.timeBufferId = ring.timeBufferId
          /\ DOMAIN ring'.buffer = DOMAIN ring.buffer
          /\ DOMAIN ring'.timeBuffer = DOMAIN ring.timeBuffer
          /\ ring'.buffer = ring.buffer
          /\ ring'.timeBuffer = ring.timeBuffer
          /\ getData(ring').length = 0
          /\ getData(ring').values = << >>
          /\ getData(ring').times = << >> ]_vars

\* A full buffer was cleared.
C23_Witness ==
    /\ ringLog.op = "clearFull"
    /\ ring.size = 3
    /\ ring.timeBuffer[0] # 0

----------------------------------------------------------------------------
(* Browser client: the two downsampling passes of convertDataToPlot        *)

\* Longest array and largest target point count that are tried in full.
MaxLength == 12
MaxTarget == 6

Max(a, b) == IF a >= b THEN a ELSE b

\* The two operands of the division the wrong way round.
calculateOptimalStep_Swapped(dataLength, targetPoints) ==
    IF dataLength <= targetPoints THEN 1
    ELSE Max(1, targetPoints \div dataLength)

calculateOptimalStep(dataLength, targetPoints) ==
    IF dataLength <= targetPoints THEN 1
    ELSE LET baseStep == dataLength \div targetPoints
         IN  Max(1, baseStep)

\* const displayStep = Math.max(1, Math.floor(bufferData.length / (maxPoints / channels)))
displayStep(length, targetPoints) == Max(1, length \div targetPoints)

\* for (let i = 0; i < length; i += step): the values i takes.
LoopIndices(length, step) == {i \in 0..(length - 1) : i % step = 0}

\* Lengths and targets: all the small ones, and 100000 samples for 500 points.
LodCases ==
    { [dataLength |-> L, targetPoints |-> T] : L \in 0..MaxLength, T \in 1..MaxTarget }
        \cup { [dataLength |-> 100000, targetPoints |-> 500] }

\* An array to thin, before it goes into the ring buffer ("insert") or on
\* its way out to the plot ("display").
LodInit ==
    /\ PipeInit
    /\ SignalrIdle
    /\ PacingIdle
    /\ MockIdle
    /\ ChartIdle
    /\ SynthIdle
    /\ RingIdle
    /\ MonIdle
    /\ CodecIdle
    /\ RealDataIdle
    /\ StreamerIdle
    /\ \E case \in LodCases, pass \in {"insert", "display"} :
          lod = [dataLength |-> case.dataLength, targetPoints |-> case.targetPoints,
                 step |-> 0, points |-> 0, last |-> -1, pc |-> pass]

\* Lines 279-283: the loop that pushes every step-th sample.
ThinInsert ==
    /\ lod.pc = "insert"
    /\ LET step == calculateOptimalStep(lod.dataLength, lod.targetPoints)
           taken == LoopIndices(lod.dataLength, step)
       IN  lod' = [lod EXCEPT !.step = step,
                              !.points = Cardinality(taken),
                              !.last = IF taken = {} THEN -1
                                       ELSE CHOOSE i \in taken : \A j \in taken : j <= i,
                              !.pc = "done"]
    /\ UNCHANGED restOfLod

\* Lines 285-294: the loop that copies every displayStep-th entry.
ThinDisplay ==
    /\ lod.pc = "display"
    /\ LET step == displayStep(lod.dataLength, lod.targetPoints)
           taken == LoopIndices(lod.dataLength, step)
       IN  lod' = [lod EXCEPT !.step = step,
                              !.points = Cardinality(taken),
                              !.last = IF taken = {} THEN -1
                                       ELSE CHOOSE i \in taken : \A j \in taken : j <= i,
                              !.pc = "done"]
    /\ UNCHANGED restOfLod

LodNext == ThinInsert \/ ThinDisplay
LodSpec == LodInit /\ [][LodNext]_vars

\* C24 as stated: a pass over L >= 0 samples for T >= 1 points takes at most
\* T + 1 of them, and for L = 100000 and T = 500 its step is 200.
C24_AtMostTargetPlusOne ==
    lod.pc = "done" =>
        /\ lod.points <= lod.targetPoints + 1
        /\ (lod.dataLength = 100000 /\ lod.targetPoints = 500) => lod.step = 200

\* C24 amended: a pass over L >= 0 samples for T >= 1 points takes at most
\* 2 * T - 1 of them, and for L = 100000 and T = 500 its step is 200.
C24_FewerThanTwiceTarget ==
    lod.pc = "done" =>
        /\ lod.points <= 2 * lod.targetPoints - 1
        /\ (lod.dataLength = 100000 /\ lod.targetPoints = 500) => lod.step = 200

\* 100000 samples were thinned to 500, the last of them sample 99800.
C24_Witness ==
    /\ lod.pc = "done"
    /\ lod.dataLength = 100000
    /\ lod.targetPoints = 500
    /\ lod.points = 500
    /\ lod.last = 99800

----------------------------------------------------------------------------
(* PerformanceMonitorService                                               *)

\* RecordDataSent and RecordLatency calls one session makes at most.
MaxCalls == 2

\* Payload sizes reported, and latencies in ms: one for the first, the third
\* and the last bucket of the distribution.
ByteCounts == {100, 200}
Latencies == {0, 1, 7, 200}

\* Interlocked.Add(ref location, value), Interlocked.Increment(ref location)
\* and Interlocked.Exchange(ref location, value): what the location holds
\* after the atomic operation.
InterlockedAdd(location, value) == location + value
InterlockedIncrement(location) == location + 1
InterlockedExchange(location, value) == value

\* An indexer assignment in place of GetOrAdd: the entry is replaced by a
\* new one on every call.
GetOrAdd_Replace(clients, clientId) ==
    [d \in DOMAIN clients \cup {clientId} |-> IF d = clientId THEN NewMetrics ELSE clients[d]]

\* _clientMetrics.GetOrAdd(clientId, _ => new PerformanceMetrics())
GetOrAdd(clients, clientId) ==
    [d \in DOMAIN clients \cup {clientId} |->
        IF d \in DOMAIN clients THEN clients[d] ELSE NewMetrics]

\* Lines 138-143: the bucket of a latency.
Bucket(latencyMs) ==
    IF latencyMs <= 1 THEN 0
    ELSE IF latencyMs <= 5 THEN 1
    ELSE IF latencyMs <= 10 THEN 2
    ELSE IF latencyMs <= 50 THEN 3
    ELSE IF latencyMs <= 100 THEN 4
    ELSE 5

\* RecordDataSent(bytes, clientId) is called by session c, with its client
\* id or with none.
RecordDataSent(c, bytes, withId) ==
    /\ recorder[c].pc = "idle"
    /\ recorder[c].calls + recorder[c].lats < MaxCalls
    /\ recorder' = [recorder EXCEPT
                      ![c].pc = "global-add", ![c].bytes = bytes, ![c].withId = withId,
                      ![c].overlap = @ \/ \E d \in Clients \ {c} : recorder[d].pc # "idle"]
    /\ UNCHANGED << metrics, resetter, reader, restOfMon >>

\* Line 36
RecordGlobalAdd(c) ==
    /\ recorder[c].pc = "global-add"
    /\ metrics' = [metrics EXCEPT !.global.TotalBytesSent =
                                     InterlockedAdd(@, recorder[c].bytes)]
    /\ recorder' = [recorder EXCEPT ![c].pc = "global-inc"]
    /\ UNCHANGED << resetter, reader, restOfMon >>

\* Lines 37-41: with no client id the call is over.
RecordGlobalInc(c) ==
    /\ recorder[c].pc = "global-inc"
    /\ metrics' = [metrics EXCEPT !.global.TotalPacketsSent = InterlockedIncrement(@)]
    /\ recorder' = [recorder EXCEPT
                      ![c].pc = IF recorder[c].withId THEN "client-get" ELSE "idle",
                      ![c].calls = IF recorder[c].withId THEN @ ELSE @ + 1,
                      ![c].sent = IF recorder[c].withId THEN @ ELSE @ + recorder[c].bytes]
    /\ UNCHANGED << resetter, reader, restOfMon >>

\* Line 43
RecordGetOrAdd(c) ==
    /\ recorder[c].pc = "client-get"
    /\ metrics' = [metrics EXCEPT !.clients = GetOrAdd(@, c)]
    /\ recorder' = [recorder EXCEPT ![c].pc = "client-add"]
    /\ UNCHANGED << resetter, reader, restOfMon >>

\* Line 44: clientMetrics is the entry line 43 returned, which is in the
\* table as long as nothing removes it.
RecordClientAdd(c) ==
    /\ recorder[c].pc = "client-add"
    /\ metrics' = IF c \in DOMAIN metrics.clients
                  THEN [metrics EXCEPT !.clients[c].TotalBytesSent =
                                          InterlockedAdd(@, recorder[c].bytes)]
                  ELSE metrics
    /\ recorder' = [recorder EXCEPT ![c].pc = "client-inc"]
    /\ UNCHANGED << resetter, reader, restOfMon >>

\* Lines 45-47
RecordClientInc(c) ==
    /\ recorder[c].pc = "client-inc"
    /\ metrics' = IF c \in DOMAIN metrics.clients
                  THEN [metrics EXCEPT !.clients[c].TotalPacketsSent =
                                          InterlockedIncrement(@)]
                  ELSE metrics
    /\ recorder' = [recorder EXCEPT ![c].pc = "idle",
                                    ![c].calls = @ + 1,
                                    ![c].sent = @ + recorder[c].bytes,
                                    ![c].idCalls = @ + 1,
                                    ![c].idSent = @ + recorder[c].bytes]
    /\ UNCHANGED << resetter, reader, restOfMon >>

\* RecordLatency(latency) is called by session c with no client id.
RecordLatency(c, latencyMs) ==
    /\ recorder[c].pc = "idle"
    /\ recorder[c].calls + recorder[c].lats < MaxCalls
    /\ recorder' = [recorder EXCEPT ![c].pc = "latency-lock", ![c].latency = latencyMs]
    /\ UNCHANGED << metrics, resetter, reader, restOfMon >>

\* Line 126: lock (metrics.LatencyLock)
LatencyLock(c) ==
    /\ recorder[c].pc = "latency-lock"
    /\ ~metrics.locked
    /\ metrics' = [metrics EXCEPT !.locked = TRUE]
    /\ recorder' = [recorder EXCEPT ![c].pc = "latency-count"]
    /\ UNCHANGED << resetter, reader, restOfMon >>

\* Lines 128-129
LatencyCountSum(c) ==
    /\ recorder[c].pc = "latency-count"
    /\ metrics' = [metrics EXCEPT !.global.LatencyCount = @ + 1,
                                  !.global.LatencySum = @ + recorder[c].latency,
                                  !.recorded = @ \cup {recorder[c].latency}]
    /\ recorder' = [recorder EXCEPT ![c].pc = "latency-min"]
    /\ UNCHANGED << resetter, reader, restOfMon >>

\* Lines 131-135
LatencyMinMax(c) ==
    /\ recorder[c].pc = "latency-min"
    /\ LET latencyMs == recorder[c].latency
           g == metrics.global
       IN  metrics' = [metrics EXCEPT
                         !.global.MinLatency =
                             IF latencyMs < g.MinLatency \/ g.MinLatency = 0
                             THEN latencyMs ELSE @,
                         !.global.MaxLatency =
                             IF latencyMs > g.MaxLatency THEN latencyMs ELSE @]
    /\ recorder' = [recorder EXCEPT ![c].pc = "latency-dist"]
    /\ UNCHANGED << resetter, reader, restOfMon >>

\* Lines 138-144: the bucket is counted and the lock released.
LatencyDistribution(c) ==
    /\ recorder[c].pc = "latency-dist"
    /\ metrics' = [metrics EXCEPT
                     !.global.LatencyDistribution[Bucket(recorder[c].latency)] = @ + 1,
                     !.locked = FALSE]
    /\ recorder' = [recorder EXCEPT ![c].pc = "idle", ![c].lats = @ + 1]
    /\ UNCHANGED << resetter, reader, restOfMon >>

\* ResetMetrics() is called: _globalMetrics.Reset() begins.
ResetBegin ==
    /\ resetter = "idle"
    /\ resetter' = "bytes"
    /\ reader' = [reader EXCEPT !.before = metrics.global]
    /\ UNCHANGED << metrics, recorder, restOfMon >>

\* Line 311
ResetBytes ==
    /\ resetter = "bytes"
    /\ metrics' = [metrics EXCEPT !.global.TotalBytesSent = InterlockedExchange(@, 0)]
    /\ resetter' = "packets"
    /\ UNCHANGED << recorder, reader, restOfMon >>

\* Line 312
ResetPackets ==
    /\ resetter = "packets"
    /\ metrics' = [metrics EXCEPT !.global.TotalPacketsSent = InterlockedExchange(@, 0)]
    /\ resetter' = "lock"
    /\ UNCHANGED << recorder, reader, restOfMon >>

\* Line 314
ResetLock ==
    /\ resetter = "lock"
    /\ ~metrics.locked
    /\ metrics' = [metrics EXCEPT !.locked = TRUE]
    /\ resetter' = "count"
    /\ UNCHANGED << recorder, reader, restOfMon >>

\* Lines 316-317
ResetCountSum ==
    /\ resetter = "count"
    /\ metrics' = [metrics EXCEPT !.global.LatencyCount = 0, !.global.LatencySum = 0,
                                  !.recorded = {}]
    /\ resetter' = "min"
    /\ UNCHANGED << recorder, reader, restOfMon >>

\* Line 318
ResetMin ==
    /\ resetter = "min"
    /\ metrics' = [metrics EXCEPT !.global.MinLatency = 0]
    /\ resetter' = "max"
    /\ UNCHANGED << recorder, reader, restOfMon >>

\* Line 319
ResetMax ==
    /\ resetter = "max"
    /\ metrics' = [metrics EXCEPT !.global.MaxLatency = 0]
    /\ resetter' = "distribution"
    /\ UNCHANGED << recorder, reader, restOfMon >>

\* Lines 320-321: Array.Clear and the end of the lock.
ResetDistribution ==
    /\ resetter = "distribution"
    /\ metrics' = [metrics EXCEPT !.global.LatencyDistribution = [i \in 0..5 |-> 0],
                                  !.locked = FALSE]
    /\ resetter' = "clients"
    /\ UNCHANGED << recorder, reader, restOfMon >>

\* Line 117: _clientMetrics.Clear()
ResetClients ==
    /\ resetter = "clients"
    /\ metrics' = [metrics EXCEPT !.clients = << >>]
    /\ resetter' = "done"
    /\ UNCHANGED << recorder, reader, restOfMon >>

\* GetMetricsSnapshot(_globalMetrics, uptime) is called.
SnapshotBegin ==
    /\ reader.pc = "idle"
    /\ reader' = [reader EXCEPT !.pc = "rate-bytes",
                                !.before = IF resetter = "idle" THEN metrics.global ELSE @]
    /\ UNCHANGED << metrics, recorder, resetter, restOfMon >>

\* The reads of the fields outside the lock, one step each: lines 153, 154,
\* 171, 179, 185, 186 and 187.
SnapshotRead(at, field, next) ==
    /\ reader.pc = at
    /\ reader' = [reader EXCEPT
                    !.pc = next,
                    !.snap = [@ EXCEPT ![field] =
                        CASE at = "rate-bytes" -> metrics.global.TotalBytesSent
                          [] at = "rate-packets" -> metrics.global.TotalPacketsSent
                          [] at = "bytes" -> metrics.global.TotalBytesSent
                          [] at = "packets" -> metrics.global.TotalPacketsSent
                          [] at = "min" -> metrics.global.MinLatency
                          [] at = "max" -> metrics.global.MaxLatency
                          [] at = "count" -> metrics.global.LatencyCount]]
    /\ UNCHANGED << metrics, recorder, resetter, restOfMon >>

\* Line 159
SnapshotLock ==
    /\ reader.pc = "lock"
    /\ ~metrics.locked
    /\ metrics' = [metrics EXCEPT !.locked = TRUE]
    /\ reader' = [reader EXCEPT !.pc = "locked"]
    /\ UNCHANGED << recorder, resetter, restOfMon >>

\* Lines 161-163: the average (its two operands) and the copy of the
\* distribution, and the end of the lock.
SnapshotLocked ==
    /\ reader.pc = "locked"
    /\ metrics' = [metrics EXCEPT !.locked = FALSE]
    /\ reader' = [reader EXCEPT
                    !.pc = "bytes",
                    !.snap = [@ EXCEPT !.avgCount = metrics.global.LatencyCount,
                                       !.avgSum = metrics.global.LatencySum,
                                       !.Distribution = metrics.global.LatencyDistribution]]
    /\ UNCHANGED << recorder, resetter, restOfMon >>

\* The service as constructed, and no call of it running.
MonInit ==
    /\ PipeInit
    /\ SignalrIdle
    /\ PacingIdle
    /\ MockIdle
    /\ ChartIdle
    /\ SynthIdle
    /\ RingIdle
    /\ LodIdle
    /\ metrics = NoMetrics
    /\ recorder = [c \in Clients |-> NoCall]
    /\ resetter = "idle"
    /\ reader = NoReader
    /\ CodecIdle
    /\ RealDataIdle
    /\ StreamerIdle

\* Two sessions that report what they sent, side by side; nothing is reset.
RecordNext ==
    \/ \E c \in Pair, bytes \in ByteCounts, withId \in BOOLEAN :
          RecordDataSent(c, bytes, withId)
    \/ \E c \in Pair : RecordGlobalAdd(c)
    \/ \E c \in Pair : RecordGlobalInc(c)
    \/ \E c \in Pair : RecordGetOrAdd(c)
    \/ \E c \in Pair : RecordClientAdd(c)
    \/ \E c \in Pair : RecordClientInc(c)
RecordSpec == MonInit /\ [][RecordNext]_vars

\* One session reports data and latencies; when it is quiet the metrics are
\* reset and read, side by side.
Quiet == \A c \in Clients : recorder[c].pc = "idle"
ResetNext ==
    \/ \E c \in Solo, bytes \in ByteCounts :
          /\ resetter = "idle" /\ reader.pc = "idle"
          /\ RecordDataSent(c, bytes, FALSE)
    \/ \E c \in Solo, latencyMs \in Latencies :
          /\ resetter = "idle" /\ reader.pc = "idle"
          /\ RecordLatency(c, latencyMs)
    \/ \E c \in Solo : RecordGlobalAdd(c)
    \/ \E c \in Solo : RecordGlobalInc(c)
    \/ \E c \in Solo : LatencyLock(c)
    \/ \E c \in Solo : LatencyCountSum(c)
    \/ \E c \in Solo : LatencyMinMax(c)
    \/ \E c \in Solo : LatencyDistribution(c)
    \/ Quiet /\ ResetBegin
    \/ ResetBytes
    \/ ResetPackets
    \/ ResetLock
    \/ ResetCountSum
    \/ ResetMin
    \/ ResetMax
    \/ ResetDistribution
    \/ ResetClients
    \/ Quiet /\ SnapshotBegin
    \/ SnapshotRead("rate-bytes", "rateBytes", "rate-packets")
    \/ SnapshotRead("rate-packets", "ratePackets", "lock")
    \/ SnapshotLock
    \/ SnapshotLocked
    \/ SnapshotRead("bytes", "TotalBytes", "packets")
    \/ SnapshotRead("packets", "Packets", "min")
    \/ SnapshotRead("min", "Min", "max")
    \/ SnapshotRead("max", "Max", "count")
    \/ SnapshotRead("count", "Count", "done")
ResetSpec == MonInit /\ [][ResetNext]_vars

\* The snapshot a reader takes of metrics m when nothing changes them.
SnapshotOf(m) ==
    [rateBytes |-> m.TotalBytesSent, ratePackets |-> m.TotalPacketsSent,
     avgCount |-> m.LatencyCount, avgSum |-> m.LatencySum,
     Distribution |-> m.LatencyDistribution, TotalBytes |-> m.TotalBytesSent,
     Packets |-> m.TotalPacketsSent, Min |-> m.MinLatency, Max |-> m.MaxLatency,
     Count |-> m.LatencyCount]

\* The fields of a snapshot that report the counters themselves: the totals
\* of bytes and packets, the latency count, the sum and count behind the
\* average, the minimum, the maximum and the six buckets.
Counters(snap) ==
    [TotalBytes |-> snap.TotalBytes, Packets |-> snap.Packets, Count |-> snap.Count,
     avgCount |-> snap.avgCount, avgSum |-> snap.avgSum, Min |-> snap.Min,
     Max |-> snap.Max, Distribution |-> snap.Distribution]

\* C25: what a reader returns, with a reset running beside it or not, is the
\* metrics as they were before the reset (bytes, packets, latency count,
\* sum, minimum, maximum and the six buckets) or all of them cleared.
C25_ResetLooksAtomic ==
    reader.pc = "done" =>
        \/ Counters(reader.snap) = Counters(SnapshotOf(reader.before))
        \/ Counters(reader.snap) = Counters(SnapshotOf(NewMetrics))

RECURSIVE SumOver(_, _)
SumOver(S, f) ==
    IF S = {} THEN 0
    ELSE LET c == CHOOSE d \in S : TRUE IN f[c] + SumOver(S \ {c}, f)

\* C26: when no RecordDataSent call is running and none was reset, the
\* global byte total is the sum of the bytes of all calls and the global
\* packet count their number, and the counters of each session that passed
\* its id are the sum and the number of its own calls with the id.
C26_CountersAddUp ==
    Quiet =>
        /\ metrics.global.TotalBytesSent = SumOver(Clients, [c \in Clients |-> recorder[c].sent])
        /\ metrics.global.TotalPacketsSent =
              SumOver(Clients, [c \in Clients |-> recorder[c].calls])
        /\ \A c \in Clients :
              IF recorder[c].idCalls = 0 THEN c \notin DOMAIN metrics.clients
              ELSE /\ c \in DOMAIN metrics.clients
                   /\ metrics.clients[c].TotalBytesSent = recorder[c].idSent
                   /\ metrics.clients[c].TotalPacketsSent = recorder[c].idCalls

\* Both sessions made two calls with their ids, 600 bytes in all, and each
\* began a call while a call of the other was running.
C26_Witness ==
    /\ Quiet
    /\ \A c \in Pair : recorder[c].overlap
    /\ \A c \in Pair : recorder[c].idCalls = 2
    /\ metrics.global.TotalPacketsSent = 4
    /\ metrics.global.TotalBytesSent = 600

\* The least of a set of numbers that is not empty.
Least(S) == CHOOSE x \in S : \A y \in S : x <= y

\* C40: when no update and no reset holds the lock, MinLatency is the
\* smallest latency recorded since the last reset, and 0 when there is none.
C40_MinIsSmallest ==
    ~metrics.locked =>
        metrics.global.MinLatency =
            IF metrics.recorded = {} THEN 0 ELSE Least(metrics.recorded)

----------------------------------------------------------------------------
(* The queue between GenerateDataForClient and the transport loop          *)

\* A capacity below the number of chunks a task produces: a queue of this
\* capacity would have to refuse a chunk, or make the task wait.
QueueCapacity == MaxChunks - 1

\* C27: the queue of a call never holds more chunks than a fixed capacity,
\* however far the task runs ahead of the transport loop.
C27_QueueBounded ==
    \A c \in Clients : Len(dataQueue[c]) <= QueueCapacity

----------------------------------------------------------------------------
(* A chunk from GenerateHighPerformanceData to the arrays of the browser   *)
(* client (RealDataService.convertDataChunkToFloat32Arrays)                *)

\* Channels and samples per channel of the chunks that are tried.
MaxCodecChannels == 2
MaxCodecSlots == 2

\* Values of sample16: the ends of the range of short, and values whose
\* low or high byte is 0x00 or 0xFF.
Samples16 == {-32768, -256, -1, 0, 1, 255, 256, 32767}

\* BitConverter.GetBytes(sample16) on a little-endian machine: the two bytes
\* of the two's complement, low byte first.
GetBytes(sample16) ==
    LET bits == sample16 % 65536
    IN  << bits % 256, bits \div 256 >>

\* The bytes of the buffer GenerateHighPerformanceData returns when
\* sample16 of sample slot i and channel ch is value[<< i, ch >>].
WireBytes(req, sequenceNumber, value) ==
    LET layout == GenerateHighPerformanceData(req, sequenceNumber).payload
    IN  [b \in DOMAIN layout |->
            GetBytes(value[<< layout[b].sample, layout[b].channel >>])[layout[b].byte + 1]]

\* Lines 358-383. payload[k] is byte k + 1 of the sequence; an element of
\* the result is value / 32768.0, a number a Float32Array holds exactly, and
\* is given by its numerator value; an element the loop does not assign
\* stays 0.
convertDataChunkToFloat32Arrays(payload, channels) ==
    LET samples == Len(payload) \div 2
        samplesPerChannel == samples \div channels
    IN  [ch \in 0..(channels - 1) |->
            [i \in 0..(samplesPerChannel - 1) |->
                LET byteIndex == (i * channels + ch) * 2
                IN  IF byteIndex + 1 < Len(payload)
                    THEN payload[byteIndex + 1] + payload[byteIndex + 2] * 256
                    ELSE 0]]

\* A chunk about to be generated: the values sample16 will take are 256 *
\* (i + 1) + ch + 1 but for one slot of one channel, where it is any of
\* Samples16.
CodecInit ==
    /\ PipeInit
    /\ SignalrIdle
    /\ PacingIdle
    /\ MockIdle
    /\ ChartIdle
    /\ SynthIdle
    /\ RingIdle
    /\ LodIdle
    /\ MonIdle
    /\ RealDataIdle
    /\ StreamerIdle
    /\ \E channels \in 1..MaxCodecChannels, slots \in 1..MaxCodecSlots :
          \E at \in (0..(slots - 1)) \X (0..(channels - 1)), s \in Samples16 :
             codec = [pc |-> "raw",
                      channels |-> channels,
                      bufferSize |-> slots,
                      sample16 |-> [p \in (0..(slots - 1)) \X (0..(channels - 1)) |->
                                       IF p = at THEN s ELSE 256 * (p[1] + 1) + p[2] + 1],
                      payload |-> << >>,
                      result |-> << >>]

\* GenerateHighPerformanceData fills the buffer, which is sent as the
\* payload of a chunk.
Encode ==
    /\ codec.pc = "raw"
    /\ codec' = [codec EXCEPT
                   !.pc = "wire",
                   !.payload = WireBytes([channels |-> UInt32(0, codec.channels),
                                          sampleRate |-> UInt32(0, 1000),
                                          bufferSize |-> UInt32(0, codec.bufferSize)],
                                         0, codec.sample16)]
    /\ UNCHANGED restOfCodec

\* The data callback of RealDataService.start (line 242).
Decode ==
    /\ codec.pc = "wire"
    /\ codec' = [codec EXCEPT
                   !.pc = "decoded",
                   !.result = convertDataChunkToFloat32Arrays(codec.payload, codec.channels)]
    /\ UNCHANGED restOfCodec

CodecNext == Encode \/ Decode
CodecSpec == CodecInit /\ [][CodecNext]_vars

\* C28: element i of the array the decoder returns for channel ch is
\* s / 32768, s the sample the synthesizer wrote for channel ch at slot i.
C28_PayloadRoundTrip ==
    codec.pc = "decoded" =>
        \A ch \in 0..(codec.channels - 1), i \in 0..(codec.bufferSize - 1) :
            /\ ch \in DOMAIN codec.result
            /\ i \in DOMAIN codec.result[ch]
            /\ codec.result[ch][i] = codec.sample16[<< i, ch >>]

----------------------------------------------------------------------------
(* Browser client: RealDataService and DAQGrpcClient.sendControlCommand    *)

\* How a Control call over HTTP may end: the service answers with an Ack
\* that says success or failure, with an HTTP error status, with a body that
\* is not JSON, or fetch itself fails.
ControlOutcomes == {"ack-true", "ack-false", "http-error", "not-json", "fetch-failed"}

\* Lines 91-116 and 141-152 of grpcClient.ts: the success field of the Ack
\* sendControlCommand resolves to. It never rejects: an HTTP error and a
\* failed fetch are caught and become success: false; decodeAck turns a
\* body it cannot parse into success: true.
sendControlCommand(outcome) ==
    CASE outcome = "ack-true" -> TRUE
      [] outcome = "ack-false" -> FALSE
      [] outcome = "not-json" -> TRUE
      [] OTHER -> FALSE

\* The object as constructed, signalrClient not connected.
NewRealData ==
    [pc |-> "idle", op |-> "NONE", isStreaming |-> FALSE, isPaused |-> FALSE,
     dataCallback |-> FALSE, connected |-> FALSE, success |-> FALSE, threw |-> FALSE]

RealDataInit ==
    /\ PipeInit
    /\ SignalrIdle
    /\ PacingIdle
    /\ MockIdle
    /\ ChartIdle
    /\ SynthIdle
    /\ RingIdle
    /\ LodIdle
    /\ MonIdle
    /\ CodecIdle
    /\ StreamerIdle
    /\ realData = NewRealData

\* start(config, dataCallback), lines 205-271: initialize() connects
\* signalrClient if it is not connected, the callback is stored, START is
\* sent over SignalR, the stream is subscribed to and the flags are set. A
\* failure to connect or to send ends the call with the exception.
RealDataStart(connects, sends) ==
    /\ realData.pc = "idle"
    /\ realData' =
          IF ~realData.connected /\ ~connects
          THEN [realData EXCEPT !.op = "START", !.threw = TRUE]
          ELSE IF ~sends
          THEN [realData EXCEPT !.op = "START", !.threw = TRUE, !.connected = TRUE,
                                !.dataCallback = TRUE]
          ELSE [realData EXCEPT !.op = "START", !.threw = FALSE, !.connected = TRUE,
                                !.dataCallback = TRUE, !.isStreaming = TRUE,
                                !.isPaused = FALSE]
    /\ UNCHANGED restOfRealData

\* connection.onclose / onreconnecting / onreconnected of DAQSignalRClient
ConnectionChange(connected) ==
    /\ realData.pc = "idle"
    /\ realData' = [realData EXCEPT !.connected = connected]
    /\ UNCHANGED restOfRealData

\* stop(), pause() or resume() is called.
CommandBegin(op) ==
    /\ realData.pc = "idle"
    /\ realData' = [realData EXCEPT !.pc = "signalr", !.op = op, !.threw = FALSE,
                                    !.success = FALSE]
    /\ UNCHANGED restOfRealData

\* if (signalrClient.connected) await signalrClient.sendCommand(...): a
\* send that fails ends the call with the exception.
CommandSignalR(sends) ==
    /\ realData.pc = "signalr"
    /\ realData' = IF realData.connected /\ ~sends
                   THEN [realData EXCEPT !.pc = "idle", !.threw = TRUE]
                   ELSE [realData EXCEPT !.pc = "control"]
    /\ UNCHANGED restOfRealData

\* Lines 286-288, 308 and 327: what follows await grpcClient.sendControlCommand
\* in stop(), pause() and resume(). The Ack is not looked at.
FlagsAfter(r, op, success) ==
    CASE op = "STOP" -> [r EXCEPT !.isStreaming = FALSE, !.isPaused = FALSE,
                                  !.dataCallback = FALSE]
      [] op = "PAUSE" -> [r EXCEPT !.isPaused = TRUE]
      [] op = "RESUME" -> [r EXCEPT !.isPaused = FALSE]

\* await grpcClient.sendControlCommand({cmd, params: {}}) resolves, and the
\* rest of the method runs.
CommandControl(outcome) ==
    /\ realData.pc = "control"
    /\ LET success == sendControlCommand(outcome)
       IN  realData' = [FlagsAfter(realData, realData.op, success) EXCEPT
                          !.pc = "idle", !.success = success]
    /\ UNCHANGED restOfRealData

RealDataNext ==
    \/ \E connects \in BOOLEAN, sends \in BOOLEAN : RealDataStart(connects, sends)
    \/ \E connected \in BOOLEAN : ConnectionChange(connected)
    \/ \E op \in {"STOP", "PAUSE", "RESUME"} : CommandBegin(op)
    \/ \E sends \in BOOLEAN : CommandSignalR(sends)
    \/ \E outcome \in ControlOutcomes : CommandControl(outcome)
RealDataSpec == RealDataInit /\ [][RealDataNext]_vars

\* C29: a stop, pause or resume whose Control acknowledgement says success =
\* false, or whose call fails, leaves isStreaming and isPaused as they were.
C29_StateFollowsAck ==
    [][ (/\ realData.pc \in {"signalr", "control"}
         /\ realData'.pc = "idle"
         /\ ~realData'.success)
        => /\ realData'.isStreaming = realData.isStreaming
           /\ realData'.isPaused = realData.isPaused ]_vars

----------------------------------------------------------------------------
(* Browser client: HighPerformanceStreamer (mockDataGenerator.ts, and the  *)
(* earlier version of the file, part_002)                                  *)

RECURSIVE GCD(_, _)
GCD(a, b) == IF b = 0 THEN a ELSE GCD(b, a % b)

\* The number n / d, in lowest terms. The intervals are doubles in the
\* code; they are kept exact here.
Ratio(n, d) == LET g == GCD(n, d) IN [num |-> n \div g, den |-> d \div g]

\* Math.max(8, r)
AtLeast8(r) == IF r.num >= 8 * r.den THEN r ELSE [num |-> 8, den |-> 1]

\* k / r, for an integer k and r > 0.
Over(k, r) ==
    LET g == GCD(k, r.num) IN [num |-> (k \div g) * r.den, den |-> r.num \div g]

\* k * r
Scale(k, r) ==
    LET g == GCD(k, r.den) IN [num |-> (k \div g) * r.num, den |-> r.den \div g]

\* const bytesPerChunk = config.channels * config.bufferSize * 2;
\* const chunksPerSecond = (targetDataRateMBps * 1024 * 1024) / bytesPerChunk;
\* 1000 / chunksPerSecond
IntervalFor(channels, bufferSize, targetDataRateMBps) ==
    LET bytesPerChunk == channels * bufferSize * 2
        chunksPerSecond == Ratio(targetDataRateMBps * 1024 * 1024, bytesPerChunk)
    IN  Over(1000, chunksPerSecond)

\* MockConfig values and target rates in MB/s a streamer is made with.
StreamerChannels == {1, 2, 4, 16}
StreamerBufferSizes == {1000, 10000, 100000}
StreamerRates == {1, 64, 320, 640}

\* A streamer is about to be constructed.
StreamerInit ==
    /\ PipeInit
    /\ SignalrIdle
    /\ PacingIdle
    /\ MockIdle
    /\ ChartIdle
    /\ SynthIdle
    /\ RingIdle
    /\ LodIdle
    /\ MonIdle
    /\ CodecIdle
    /\ RealDataIdle
    /\ \E ch \in StreamerChannels, n \in StreamerBufferSizes, rate \in StreamerRates :
          streamer = [pc |-> "new", channels |-> ch, bufferSize |-> n,
                      targetDataRate |-> rate, chunkInterval |-> [num |-> 0, den |-> 1],
                      running |-> FALSE, updated |-> FALSE]

\* mockDataGenerator.ts, lines 192-209
HighPerformanceStreamer ==
    /\ streamer.pc = "new"
    /\ streamer' = [streamer EXCEPT
                      !.pc = "ready",
                      !.chunkInterval = AtLeast8(IntervalFor(streamer.channels,
                                                             streamer.bufferSize,
                                                             streamer.targetDataRate))]
    /\ UNCHANGED restOfStreamer

\* part_002, lines 186-194
HighPerformanceStreamer_Earlier ==
    /\ streamer.pc = "new"
    /\ streamer' = [streamer EXCEPT
                      !.pc = "ready-earlier",
                      !.chunkInterval = IntervalFor(streamer.channels, streamer.bufferSize,
                                                    streamer.targetDataRate)]
    /\ UNCHANGED restOfStreamer

\* { ...old, ...new } for the keys of old
Merge(old, new) ==
    [k \in DOMAIN old |-> IF k \in DOMAIN new THEN new[k] ELSE old[k]]

\* The Partial<MockConfig> values updateConfig is called with: channels,
\* bufferSize, both or neither.
PartialConfigs ==
    UNION {{f \in [D -> StreamerChannels \cup StreamerBufferSizes] :
                /\ "channels" \in D => f["channels"] \in StreamerChannels
                /\ "bufferSize" \in D => f["bufferSize"] \in StreamerBufferSizes} :
           D \in SUBSET {"channels", "bufferSize"}}

\* updateConfig that passes the configuration on to the generator and
\* leaves the interval as the constructor computed it.
StreamerUpdateConfig_KeepInterval(config) ==
    /\ streamer.pc = "ready"
    /\ LET generatorConfig ==
               Merge([channels |-> streamer.channels,
                      bufferSize |-> streamer.bufferSize], config)
       IN  streamer' = [streamer EXCEPT
                          !.channels = generatorConfig.channels,
                          !.bufferSize = generatorConfig.bufferSize,
                          !.updated = TRUE]
    /\ UNCHANGED restOfStreamer

\* mockDataGenerator.ts, lines 278-286, with MockDataGenerator.updateConfig
\* (lines 129-131): the generator merges the partial configuration into its
\* own, and the interval is computed from the generator's configuration
\* merged with it once more. Nothing looks at intervalId.
StreamerUpdateConfig(config) ==
    /\ streamer.pc = "ready"
    /\ LET generatorConfig ==
               Merge([channels |-> streamer.channels,
                      bufferSize |-> streamer.bufferSize], config)
           newConfig == Merge(generatorConfig, config)
       IN  streamer' = [streamer EXCEPT
                          !.channels = generatorConfig.channels,
                          !.bufferSize = generatorConfig.bufferSize,
                          !.chunkInterval =
                              AtLeast8(IntervalFor(newConfig.channels,
                                                   newConfig.bufferSize,
                                                   streamer.targetDataRate)),
                          !.updated = TRUE]
    /\ UNCHANGED restOfStreamer

\* start(onData), lines 211-259, and stop(), lines 262-268: intervalId is
\* set, and set to null.
StreamerRun(on) ==
    /\ streamer.pc = "ready"
    /\ streamer.running # on
    /\ streamer' = [streamer EXCEPT !.running = on]
    /\ UNCHANGED restOfStreamer

StreamerNext ==
    \/ HighPerformanceStreamer
    \/ HighPerformanceStreamer_Earlier
    \/ \E config \in PartialConfigs : StreamerUpdateConfig(config)
    \/ \E on \in BOOLEAN : StreamerRun(on)
StreamerSpec == StreamerInit /\ [][StreamerNext]_vars

\* C30: the interval of a streamer is 1000 * bytesPerChunk /
\* targetBytesPerSecond ms, bytesPerChunk being channels * bufferSize * 2,
\* and for 4 channels, 100000 samples and 640 MB/s it is 1.19 ms to two
\* decimals.
C30_IntervalIsBytesOverRate ==
    streamer.pc \in {"ready", "ready-earlier"} =>
        /\ streamer.chunkInterval =
              Scale(1000, Ratio(streamer.channels * streamer.bufferSize * 2,
                                streamer.targetDataRate * 1024 * 1024))
        /\ (streamer.channels = 4 /\ streamer.bufferSize = 100000
                /\ streamer.targetDataRate = 640)
              => /\ 1185 * streamer.chunkInterval.den <= 1000 * streamer.chunkInterval.num
                 /\ 1000 * streamer.chunkInterval.num < 1195 * streamer.chunkInterval.den

\* C36: after updateConfig the interval of the streamer, running or not, is
\* the one the constructor computes for the merged configuration and the
\* same target rate: the greater of 8 ms and 1000 / chunksPerSecond.
C36_IntervalFollowsConfig ==
    (streamer.pc = "ready" /\ streamer.updated) =>
        LET bytesPerChunk == streamer.channels * streamer.bufferSize * 2
            unclamped == Scale(1000, Ratio(bytesPerChunk,
                                           streamer.targetDataRate * 1024 * 1024))
        IN  streamer.chunkInterval =
               IF unclamped.num >= 8 * unclamped.den THEN unclamped
               ELSE [num |-> 8, den |-> 1]

\* A running streamer was given another channel count and its interval is
\* no longer the one it was constructed with: it is above the 8 ms floor.
C36_Witness ==
    /\ streamer.pc = "ready"
    /\ streamer.updated
    /\ streamer.running
    /\ streamer.chunkInterval.num > 8 * streamer.chunkInterval.den

----------------------------------------------------------------------------
(* The transport loop of Subscribe with a backlog                          *)

\* Chunks that wait in the queue of a session when its transport loop comes
\* round again: more than one batch takes.
MaxQueued == 12

\* One session of a service that was sent START: its call is registered and
\* at the top of its transport loop, and its generation task, which is
\* faster than the transport, has handed over its first chunks.
BatchInit ==
    /\ globalDataGeneration = TRUE
    /\ sessions = Solo
    /\ subscribers = Solo
    /\ \E req \in Valid : request = [c \in Clients |-> IF c \in Solo THEN req ELSE NoRequest]
    /\ isActive = [c \in Clients |-> c \in Solo]
    /\ cancelled = [c \in Clients |-> FALSE]
    /\ disposed = [c \in Clients |-> FALSE]
    /\ pacerPc = [c \in Clients |-> IF c \in Solo THEN "loop" ELSE "none"]
    /\ callPc = [c \in Clients |-> IF c \in Solo THEN "loop" ELSE "idle"]
    /\ ctx = [c \in Clients |-> FALSE]
    /\ sendSeq = [c \in Clients |-> 0]
    /\ chunksSent = [c \in Clients |-> 0]
    /\ status = [c \in Clients |-> "none"]
    /\ stream = [c \in Clients |-> << >>]
    /\ \E n \in 0..MaxQueued :
          /\ pacerSeq = [c \in Clients |-> IF c \in Solo THEN n ELSE 0]
          /\ dataQueue = [c \in Clients |->
                            IF c \in Solo THEN [i \in 1..n |-> NewChunk(i - 1)]
                            ELSE << >>]
    /\ control = Idle
    /\ ack = [cmd |-> "START", success |-> Success("START")]
    /\ hub = << >>
    /\ SignalrIdle
    /\ PacingIdle
    /\ MockIdle
    /\ ChartIdle
    /\ SynthIdle
    /\ RingIdle
    /\ LodIdle
    /\ MonIdle
    /\ CodecIdle
    /\ RealDataIdle
    /\ StreamerIdle

\* The call and the task of the session go on; the client may go away.
BatchNext ==
    \/ \E c \in Solo : TransportLoop(c)
    \/ \E c \in Solo : TransportBatch(c)
    \/ \E c \in Solo : TransportWait(c)
    \/ \E c \in Solo : SubscribeFinally(c)
    \/ \E c \in Solo : Disconnect(c)
    \/ \E c \in Solo : PacerLoop(c)
    \/ \E c \in Solo : PacerLock(c)
    \/ \E c \in Solo, late \in BOOLEAN : PacerGenerate(c, late)
    \/ \E c \in Solo : PacerDelay(c)
BatchSpec == BatchInit /\ [][BatchNext]_vars

\* C31: between two evaluations of the outer loop's cancellation test a call
\* writes at most 10 chunks: a pass starts with chunksSent = 0, every write
\* to the stream is one chunk, counts one, and happens only with fewer than
\* 10 written in the pass.
C31_BatchAtMostTen ==
    [][\A c \in Clients :
          /\ callPc[c] = "loop" => chunksSent[c] = 0
          /\ stream'[c] # stream[c] =>
                /\ callPc[c] = "batch"
                /\ Len(stream'[c]) = Len(stream[c]) + 1
                /\ chunksSent[c] < 10
                /\ chunksSent'[c] = chunksSent[c] + 1]_vars

\* A pass has written its ten chunks and chunks are still queued.
C31_Witness ==
    \E c \in Clients :
        callPc[c] = "batch" /\ chunksSent[c] = 10 /\ dataQueue[c] # << >>
            /\ Len(stream[c]) = 10

\* C32: the chunks on the stream of a session were synthesized with
\* consecutive sequence offsets, in the order of their generation: no chunk
\* handed to the call is missing between two that were written.
C32_NoChunkLost ==
    \A c \in Clients : \A i \in 1..(Len(stream[c]) - 1) :
        stream[c][i + 1].offset = stream[c][i].offset + 1

----------------------------------------------------------------------------
(* The start of a session: the task against the registration               *)

\* C33: the first chunk on the stream of a session is the one its task
\* synthesized with sequence offset 0: nothing the task generated was thrown
\* away before the call registered its subscriber.
C33_FirstChunkIsOffsetZero ==
    \A c \in Clients : stream[c] # << >> => stream[c][1].offset = 0

----------------------------------------------------------------------------
(* The global flag of a fresh service                                      *)

\* C34: a fresh service has its flag off and has generated nothing; the flag
\* goes on only by a START or RESUME (the Ack just given) or by the restart
\* of a RESET, a task comes to generate only by reading the flag on, and
\* only a generating task counts a chunk or hands one over: no chunk before
\* one of the three commands.
C34_NoChunkBeforeStart ==
    /\ ~globalDataGeneration
    /\ \A c \in Clients : pacerSeq[c] = 0 /\ dataQueue[c] = << >>
    /\ [][/\ (globalDataGeneration' /\ ~globalDataGeneration) =>
                \/ ack' \in {[cmd |-> k, success |-> TRUE] : k \in {"START", "RESUME"}}
                \/ control.cmd = "RESET" /\ control.pc = "resetDelay"
           /\ \A c \in Clients :
                /\ (pacerPc'[c] = "generate" /\ pacerPc[c] # "generate") =>
                       globalDataGeneration
                /\ (pacerSeq'[c] # pacerSeq[c] \/ Len(dataQueue'[c]) > Len(dataQueue[c])) =>
                       pacerPc[c] = "generate"]_vars

\* A session is subscribed on a service that was sent no command: its task
\* has found the flag off and waits, and nothing was generated.
C34_Witness ==
    \E c \in Clients :
        /\ c \in subscribers
        /\ callPc[c] = "wait"
        /\ pacerPc[c] = "poll"
        /\ pacerSeq[c] = 0
        /\ ~globalDataGeneration
        /\ ack = NoAck
        /\ control = Idle

----------------------------------------------------------------------------
(* The push channel: DAQSignalRClient.sendCommand and DAQHub                *)

\* Invocations the hub is sent, one after the other.
MaxInvocations == 2

\* The public methods of DAQHub, which a client can invoke by name.
HubMethods ==
    {"JoinPerformanceGroup", "LeavePerformanceGroup", "GetPerformanceMetrics",
     "GetClientMetrics", "ResetMetrics", "SendControlCommand", "Heartbeat",
     "BroadcastPerformanceUpdate"}

\* The commands RealDataService passes to signalrClient.sendCommand.
WebCommands == {"START", "STOP", "PAUSE", "RESUME"}

\* A connection is open and nothing was invoked on it.
SignalrInit ==
    /\ PipeInit
    /\ SynthIdle
    /\ RingIdle
    /\ LodIdle
    /\ MonIdle
    /\ CodecIdle
    /\ RealDataIdle
    /\ StreamerIdle
    /\ PacingIdle
    /\ MockIdle
    /\ ChartIdle
    /\ signalr = [pc |-> "idle", from |-> "none", target |-> "none",
                  command |-> "none", log |-> << >>]

\* signalrClient.ts lines 88-99, with the connection established:
\* await this.connection.invoke('SendCommand', command, params)
sendCommand(command) ==
    /\ signalr.pc = "idle"
    /\ Len(signalr.log) < MaxInvocations
    /\ signalr' = [signalr EXCEPT !.pc = "sent", !.from = "web",
                                  !.target = "SendCommand", !.command = command]
    /\ UNCHANGED restOfSignalr

\* Another client of the hub invokes SendControlCommand by its name.
HubClientInvoke(command) ==
    /\ signalr.pc = "idle"
    /\ Len(signalr.log) < MaxInvocations
    /\ signalr' = [signalr EXCEPT !.pc = "sent", !.from = "other",
                                  !.target = "SendControlCommand",
                                  !.command = command]
    /\ UNCHANGED restOfSignalr

\* The hub receives the invocation. A target that is no method of the hub
\* is answered with an error completion and no method runs: invoke rejects,
\* and sendCommand logs and rethrows. SendControlCommand (DAQHub.cs lines
\* 131-179) runs the arm of its switch and sends CommandResult, or
\* CommandError when the operation threw (a stop or reset can).
HubReceive(threw) ==
    /\ signalr.pc = "sent"
    /\ threw => HubArm(signalr.command) \in {"STOP", "RESET"}
    /\ LET dispatched == signalr.target = "SendControlCommand"
                             /\ signalr.target \in HubMethods
           entry ==
               [from |-> signalr.from,
                command |-> signalr.command,
                arm |-> IF dispatched THEN HubArm(signalr.command) ELSE "NONE",
                messages |-> IF ~dispatched THEN << >>
                             ELSE IF threw THEN HubError(signalr.command)
                             ELSE HubResult(signalr.command,
                                            Success(HubArm(signalr.command))),
                invoke |-> IF signalr.target \in HubMethods THEN "resolved"
                           ELSE "rejected"]
       IN  signalr' = [signalr EXCEPT !.pc = "idle", !.log = Append(@, entry)]
    /\ UNCHANGED restOfSignalr

SignalrNext ==
    \/ \E command \in WebCommands : sendCommand(command)
    \/ \E command \in HubCommands : HubClientInvoke(command)
    \/ \E threw \in BOOLEAN : HubReceive(threw)
SignalrSpec == SignalrInit /\ [][SignalrNext]_vars
\* The hub answers every invocation it is sent.
SignalrFairSpec == SignalrSpec /\ WF_vars(\E threw \in BOOLEAN : HubReceive(threw))

\* The last invocation that ended.
LastInvocation == signalr.log[Len(signalr.log)]

\* C35: a command the web client sends over the push channel is received by
\* a hub method, which runs the global operation of that command, and the
\* caller is sent a reply for it (CommandResult, or CommandError when the
\* operation threw).
C35_CommandDispatched ==
    \A k \in WebCommands :
        (signalr.pc = "sent" /\ signalr.from = "web" /\ signalr.command = k)
            ~> (/\ signalr.pc = "idle"
                /\ signalr.log # << >>
                /\ LastInvocation.from = "web"
                /\ LastInvocation.arm = k
                /\ LastInvocation.messages # << >>
                /\ LastInvocation.messages[1].type \in {"CommandResult", "CommandError"})

----------------------------------------------------------------------------
(* DAQDataService.GenerateDataForClient: the target interval of a task     *)

\* DataRequest values the interval is computed for: valid requests, with a
\* sample rate of 2^30 among them. The fields are uint32 and the products
\* below are taken modulo 2^32; with these values every product is below
\* 2^31 once it has wrapped.
PacingChannels == {1, 4, 8, 16}
PacingRates == {1000, 48000, 1000000, 1073741824}
PacingBufferSizes == {1, 4, 1024, 100000}

\* A task is about to compute its interval.
PacingInit ==
    /\ PipeInit
    /\ SynthIdle
    /\ RingIdle
    /\ LodIdle
    /\ MonIdle
    /\ CodecIdle
    /\ RealDataIdle
    /\ StreamerIdle
    /\ SignalrIdle
    /\ MockIdle
    /\ ChartIdle
    /\ \E ch \in PacingChannels, rate \in PacingRates, n \in PacingBufferSizes :
          pacing = [pc |-> "new", channels |-> ch, sampleRate |-> rate,
                    bufferSize |-> n, bytesPerChunk |-> 0,
                    targetIntervalMs |-> [num |-> 0, den |-> 1]]

\* Lines 146-154:
\*   var samplesPerChunk = (int)request.BufferSize;
\*   var bytesPerChunk = (int)(request.Channels * samplesPerChunk * bytesPerSample);
\*   var samplesPerSecond = request.SampleRate * request.Channels;   (uint)
\*   var chunksPerSecond = (double)samplesPerSecond / samplesPerChunk;
\*   var targetIntervalMs = 1000.0 / chunksPerSecond;
\* bytesPerChunk is a product of longs, below 2^31 for these requests. A
\* rate of 0 chunks per second gives the interval 1 / 0, the double Infinity.
PacingCompute ==
    /\ pacing.pc = "new"
    /\ LET samplesPerChunk == pacing.bufferSize
           bytesPerChunk == pacing.channels * samplesPerChunk * 2
           samplesPerSecond == Mul32(pacing.sampleRate, pacing.channels)
           chunksPerSecond == Ratio(samplesPerSecond, samplesPerChunk)
       IN  pacing' = [pacing EXCEPT
                        !.pc = "computed",
                        !.bytesPerChunk = bytesPerChunk,
                        !.targetIntervalMs = Over(1000, chunksPerSecond)]
    /\ UNCHANGED restOfPacing

PacingNext == PacingCompute
PacingSpec == PacingInit /\ [][PacingNext]_vars

\* C37: the target interval of a task is 1000 * bufferSize / sampleRate ms,
\* the time its chunk of bufferSize samples per channel spans: the interval
\* at which bytesPerChunk amounts to channels * sampleRate * 2 bytes per
\* second.
C37_IntervalMatchesRate ==
    pacing.pc = "computed" =>
        /\ pacing.bytesPerChunk = pacing.channels * pacing.bufferSize * 2
        /\ pacing.targetIntervalMs = Ratio(1000 * pacing.bufferSize, pacing.sampleRate)

----------------------------------------------------------------------------
(* Mock mode of the browser client: App with its HighPerformanceStreamer   *)
(* and the MockDataGenerator inside it                                     *)

\* Chunks the generator of a page produces at most.
MaxMockChunks == 4

\* config.bufferSize of the page.
MockBufferSizes == {2, 5, 100000}

\* The chunk no callback was given.
NoMockChunk == [seq |-> -1, sample |-> -1]

\* The page as loaded, useRealData false: streamerRef.current is null, and
\* nothing is streaming. sequenceNumber and sampleCounter are those of the
\* generator once there is one; restart follows a Stop: "stopped" after it,
\* "started" after the Start that follows, "delivered" once the data
\* callback was given a chunk after that, the chunk kept in first.
MockInit ==
    /\ PipeInit
    /\ SynthIdle
    /\ RingIdle
    /\ LodIdle
    /\ MonIdle
    /\ CodecIdle
    /\ RealDataIdle
    /\ StreamerIdle
    /\ SignalrIdle
    /\ PacingIdle
    /\ ChartIdle
    /\ \E n \in MockBufferSizes :
          mock = [streamerRef |-> FALSE, intervalId |-> FALSE, onDataCallback |-> FALSE,
                  sequenceNumber |-> 0, sampleCounter |-> 0, bufferSize |-> n,
                  isStreaming |-> FALSE, isPaused |-> FALSE,
                  restart |-> "no", first |-> NoMockChunk]

\* App.handleStart (part_000 lines 113-136), mock branch, behind the START
\* button (ControlPanel.tsx line 120): the streamer is constructed, and its
\* generator with it, only if (!streamerRef.current); then start(onData).
MockStart ==
    /\ ~(mock.isStreaming /\ ~mock.isPaused)
    /\ mock' = [mock EXCEPT
                   !.streamerRef = TRUE,
                   !.intervalId = TRUE,
                   !.onDataCallback = TRUE,
                   !.isStreaming = TRUE,
                   !.isPaused = FALSE,
                   !.restart = IF @ = "stopped" THEN "started" ELSE @]
    /\ UNCHANGED restOfMock

\* HighPerformanceStreamer.stop, mockDataGenerator.ts lines 262-268: the animation frame is
\* cancelled and the callback dropped. The generator is not touched:
\* nothing in the client calls MockDataGenerator.reset.
StreamerStop(m) ==
    [m EXCEPT !.intervalId = FALSE, !.onDataCallback = FALSE]

\* App.handleStop (lines 138-157), mock branch, behind the STOP button
\* (ControlPanel.tsx line 152). streamerRef.current is kept.
MockStop ==
    /\ mock.isStreaming
    /\ mock' = [(IF mock.streamerRef THEN StreamerStop(mock) ELSE mock) EXCEPT
                   !.isStreaming = FALSE,
                   !.isPaused = FALSE,
                   !.restart = "stopped",
                   !.first = NoMockChunk]
    /\ UNCHANGED restOfMock

\* App.handlePause (lines 159-172) and handleResume (lines 174-187), mock
\* branch, behind the one button that is PAUSE or RESUME.
MockPause ==
    /\ mock.isStreaming
    /\ ~mock.isPaused
    /\ mock' = [(IF mock.streamerRef THEN StreamerStop(mock) ELSE mock) EXCEPT
                   !.isPaused = TRUE]
    /\ UNCHANGED restOfMock

MockResume ==
    /\ mock.isStreaming
    /\ mock.isPaused
    /\ mock' = [mock EXCEPT
                   !.intervalId = mock.streamerRef,
                   !.onDataCallback = mock.streamerRef,
                   !.isPaused = FALSE]
    /\ UNCHANGED restOfMock

\* A frame of animationLoop for which the interval has passed (lines
\* 219-255): generateData calls generator.generateChunk (lines 30-81), whose
\* samples are those of index sampleCounter on and whose metadata.seq is
\* sequenceNumber++, and hands the chunk to the callback.
MockFrame ==
    /\ mock.intervalId
    /\ mock.onDataCallback
    /\ mock.sequenceNumber < MaxMockChunks
    /\ mock' = [mock EXCEPT
                   !.sequenceNumber = @ + 1,
                   !.sampleCounter = @ + mock.bufferSize,
                   !.restart = IF @ = "started" THEN "delivered" ELSE @,
                   !.first = IF mock.restart = "started"
                             THEN [seq |-> mock.sequenceNumber,
                                   sample |-> mock.sampleCounter]
                             ELSE @]
    /\ UNCHANGED restOfMock

MockNext == MockStart \/ MockStop \/ MockPause \/ MockResume \/ MockFrame
MockSpec == MockInit /\ [][MockNext]_vars

\* C38: in mock mode the first chunk the data callback is given after a
\* Stop and the Start that follows it has seq 0 and starts at sample 0.
C38_RestartFromZero ==
    mock.restart = "delivered" => mock.first.seq = 0 /\ mock.first.sample = 0

----------------------------------------------------------------------------
(* Browser client: the update loop of WaveformChart                        *)

\* Chunks the chart is handed, and render ticks that find the 33.33 ms
\* passed, at most.
MaxChartChunks == 3
MaxTicks == 4

\* The chart is mounted with isStreaming true and data = [] (chunk 0 stands
\* for the empty array; the chunks handed to it later are 1, 2, ...).
\* inserted lists the chunks put into the ring buffers, in order.
ChartInit ==
    /\ PipeInit
    /\ SynthIdle
    /\ RingIdle
    /\ LodIdle
    /\ MonIdle
    /\ CodecIdle
    /\ RealDataIdle
    /\ StreamerIdle
    /\ SignalrIdle
    /\ PacingIdle
    /\ MockIdle
    /\ chart = [data |-> 0, arrived |-> 0, frameCount |-> 0, inserted |-> << >>]

\* The data callback of App (setCurrentData(data), part_000 line 103) gives
\* the chart a new data prop. The effect of lines 314-338 depends on data:
\* its cleanup cancels the pending frame and it requests a new one, whose
\* updatePlot closes over the new data. lastUpdateRef is a ref and is kept.
ChartData ==
    /\ chart.arrived < MaxChartChunks
    /\ chart' = [chart EXCEPT !.arrived = @ + 1, !.data = chart.arrived + 1]
    /\ UNCHANGED restOfChart

\* updatePlot runs on an animation frame, finds now - lastUpdateRef.current
\* >= 33.33 and calls convertDataToPlot(data) (lines 267-311): the samples of
\* the data prop it closed over are pushed into the ring buffers (nothing
\* for the empty array) and frameCountRef.current++. It then requests the
\* next frame, with the same data.
ChartTick ==
    /\ Len(chart.inserted) + (IF chart.data = 0 THEN chart.frameCount ELSE 0) < MaxTicks
    /\ chart' = [chart EXCEPT
                    !.frameCount = @ + 1,
                    !.inserted = IF chart.data = 0 THEN @ ELSE Append(@, chart.data)]
    /\ UNCHANGED restOfChart

ChartNext == ChartData \/ ChartTick
ChartSpec == ChartInit /\ [][ChartNext]_vars

\* How many times chunk n was put into the ring buffers.
Insertions(n) == Cardinality({i \in 1..Len(chart.inserted) : chart.inserted[i] = n})

\* C39: no chunk handed to the chart is inserted twice, and every chunk
\* that was followed by another was inserted once.
C39_InsertedOnce ==
    /\ \A n \in 1..chart.arrived : Insertions(n) <= 1
    /\ \A n \in 1..(chart.data - 1) : Insertions(n) = 1


====
